---- MODULE Spec2Model ----
(***************************************************************************)
(* Model of aiovk/longpoll.py: the long-poll session (BaseLongPoll and its *)
(* two subclasses UserLongPoll / BotsLongPoll), its wait() / iter() /      *)
(* get_pts() coroutines, the remote handoff call and the poll GET.         *)
(*                                                                         *)
(* Python's None is the empty sequence, a present value v is <<v>>.        *)
(* A coroutine is cut at its suspension points (the awaited remote call    *)
(* and the awaited GET): the environment completes the awaited call in one *)
(* step, the coroutine then runs to its next suspension point, return or   *)
(* raise in one step.                                                      *)
(*                                                                         *)
(* The event decoders (MessageEvent, BotMessageEvent) are pure: they are   *)
(* operators, applied by the actions of SpecDecode to the raw updates its  *)
(* initial states draw.  A string is the sequence of its characters, a     *)
(* dict a function from its keys, an object's attributes a function from   *)
(* attribute names together with the set of the names that exist.         *)
(*                                                                         *)
(* MessageEvent.normalized_attachments is a coroutine of its own, cut at   *)
(* its awaited lookups (messages.getById, photos.getById, docs.getById);   *)
(* SpecResolve runs it on the events it draws.                             *)
(***************************************************************************)
EXTENDS Integers, Sequences, FiniteSets, TLC

\* ------------------------------------------------------------------ bounds
MaxDepth == 1       \* nested wait() frames above the first one, per call
MaxHandoffs == 2    \* handoff calls wait() issues over a run
MaxUpdates == 3     \* updates the server hands out over a run
MaxBatch == 2       \* updates in one poll response
MaxTextPieces == 3  \* pieces (entities, markup, letters) a drawn text is made of
MaxExtraFields == 1 \* elements a drawn raw array has beyond its type's field list
MaxBulk == 2        \* attachments of the message messages.getById answers
MaxAttach == 2      \* indices N for which an event carries attachN / attachN_type

\* ------------------------------------------------------- values and inputs
None == <<>>
Some(v) == <<v>>

Tasks == {1, 2}
SeqTasks == {1}

Kinds == {"user", "bots"}
TsVals == {100, 105}
KeyVals == {"k1", "k2"}
ServerVals == {"s1", "s2"}
PtsVals == {0, 7}
FailedVals == {0, 1, 2, 4}
StatusVals == {200, 403}

Opt(S) == {None} \cup {Some(v) : v \in S}

\* the body of a *.getLongPollServer answer; "raise" is a failed remote call
HandoffPayloads == [pts : Opt(PtsVals), ts : Opt(TsVals), key : Opt(KeyVals), server : Opt(ServerVals)]
HandoffAnswers == {[raised |-> TRUE, body |-> None]} \cup {[raised |-> FALSE, body |-> Some(p)] : p \in HandoffPayloads}

\* Python truthiness of an optional integer: None and 0 are falsy
Truthy(x) == x # None /\ x # Some(0)
\* Python truthiness of base_url: None is falsy (ServerVals has no empty name)
TruthyUrl(u) == u # None

\* ---------------------------------------------------------------- state
VARIABLES
    kind,       \* which subclass the session object is
    pts, ts, key, base_url,     \* the session's fields
    task,       \* per task: the coroutine it runs and where it is suspended
    updSent,    \* number of updates the server has handed out
    received,   \* updates of the responses wait() returned to iter()
    delivered,  \* updates iter() has yielded
    dropped,    \* updates held by an iter() generator when it was abandoned
    cnt,        \* counts of the calls made so far
    dec,        \* the event decoders: a raw update and the event made of it
    att         \* normalized_attachments: the event it runs on and where it is

vars == <<kind, pts, ts, key, base_url, task, updSent, received, delivered, dropped, cnt, dec, att>>

Session == [pts |-> pts, ts |-> ts, key |-> key, base_url |-> base_url]

SetSession(s) ==
    /\ pts' = s.pts
    /\ ts' = s.ts
    /\ key' = s.key
    /\ base_url' = s.base_url

\* pc: "idle", "handoff" (awaiting the remote call), "get" (awaiting the GET),
\* "done" (returned or raised, the caller has not yet taken the result);
\* stack: need_pts of the nested wait() frames; batch: what the generator of
\* iter() has still to yield; req / hreq: the parameters of the last GET /
\* handoff call; resp / hresp: the answer the task's last step consumed;
\* at: the session when the last GET was issued; hist: the failed codes this
\* wait() call has handled; hcalls: handoff calls since the last answer of a GET;
\* start: the session when the wait() call started (kept in counted runs)
IdleTask ==
    [pc |-> "idle", op |-> "none", stack |-> <<>>, req |-> None, hreq |-> None,
     resp |-> None, hresp |-> None, batch |-> <<>>, outcome |-> "none", ret |-> None,
     hist |-> <<>>, hcalls |-> 0, at |-> None, need_ts |-> FALSE, start |-> None]

\* on: the calls are counted in this run; frames: the nested wait() frames
\* are recorded (a run that does not record them keeps the outermost frame
\* and the first MaxDepth + 1 entries of hist: it has finitely many states
\* however often wait() repeats its GET);
\* handoffs / handoffsOk: handoff calls wait() made / that succeeded;
\* invGet: session-invalidating answers that were followed by a GET;
\* invPending: those not yet followed by one; polled: a GET was issued
InitCnt ==
    [on |-> FALSE, frames |-> TRUE, handoffs |-> 0, handoffsOk |-> 0, invGet |-> 0,
     invPending |-> 0, polled |-> FALSE]

\* raw: a raw array update; obj: a raw callback object; ev / bev: the
\* MessageEvent / BotMessageEvent constructed from them (None: not yet);
\* rt: what from_serializable made of to_serializable of ev
NoDecoding == [raw |-> None, obj |-> None, ev |-> None, bev |-> None, rt |-> None]

\* pc: "idle", "bulk1" / "bulk2" (awaiting messages.getById with / without
\* the group scope), "item" (awaiting photos.getById / docs.getById for index
\* i), "done"; calls: the remote calls issued so far; bulk: the answers of
\* messages.getById; got: what _map made of the bulk tier's list; answers:
\* the per-item answers consumed, by index; norm: the list the inline tier
\* builds; ret: the list returned
NoResolution ==
    [self |-> None, pc |-> "idle", calls |-> <<>>, bulk |-> <<>>, got |-> None,
     i |-> 1, answers |-> <<>>, norm |-> <<>>, ret |-> None]

InitSession ==
    /\ dec = NoDecoding
    /\ att = NoResolution
    /\ kind \in Kinds
    /\ pts = None
    /\ ts = None
    /\ key = None
    /\ base_url = None
    /\ task = [t \in Tasks |-> IdleTask]
    /\ updSent = 0
    /\ received = <<>>
    /\ delivered = <<>>
    /\ dropped = {}

Init == InitSession /\ cnt = InitCnt

\* the same session with its calls counted
InitCounted == InitSession /\ cnt = [InitCnt EXCEPT !.on = TRUE]

\* the same session with the nested frames of wait() not recorded
InitFlat == InitSession /\ cnt = [InitCnt EXCEPT !.frames = FALSE]

\* ------------------------------------------------------- the code's pieces
\* UserLongPoll prefixes the protocol, BotsLongPoll takes the server verbatim
MkUrl(k, server) == IF k = "user" THEN <<"https://", server>> ELSE <<server>>

\* the remote call each subclass makes; only the user kind passes need_pts
HandoffParams(k, need_pts) ==
    IF k = "user"
    THEN [method |-> "messages.getLongPollServer", need_pts |-> Some(IF need_pts THEN 1 ELSE 0)]
    ELSE [method |-> "groups.getLongPollServer", need_pts |-> None]

\* mutant: base_url is assigned before key
ApplyHandoff_UrlFirst(s, k, a) ==
    IF a.raised THEN [s |-> s, err |-> "ApiError"]
    ELSE LET p == a.body[1]
             s1 == [s EXCEPT !.pts = p.pts]
             s2 == [s1 EXCEPT !.ts = p.ts]
             s3 == IF p.server = None THEN s2
                   ELSE [s2 EXCEPT !.base_url = MkUrl(k, p.server[1])]
         IN  IF p.ts = None THEN [s |-> s1, err |-> "KeyError"]
             ELSE IF p.server = None THEN [s |-> s2, err |-> "KeyError"]
             ELSE IF p.key = None THEN [s |-> s3, err |-> "KeyError"]
             ELSE [s |-> [s3 EXCEPT !.key = p.key], err |-> "none"]

\* mutant: the key is read leniently, a payload without key does not raise
ApplyHandoff_LenientKey(s, k, a) ==
    IF a.raised THEN [s |-> s, err |-> "ApiError"]
    ELSE LET p == a.body[1]
             s1 == [s EXCEPT !.pts = p.pts]
             s2 == [s1 EXCEPT !.ts = p.ts]
             s3 == [s2 EXCEPT !.key = p.key]
         IN  IF p.ts = None THEN [s |-> s1, err |-> "KeyError"]
             ELSE IF p.server = None THEN [s |-> s3, err |-> "KeyError"]
             ELSE [s |-> [s3 EXCEPT !.base_url = MkUrl(k, p.server[1])], err |-> "none"]

\* _get_long_poll_server after the remote call answered: the fields are
\* assigned one by one, a missing ts / key / server raises KeyError midway
ApplyHandoff(s, k, a) ==
    IF a.raised THEN [s |-> s, err |-> "ApiError"]
    ELSE LET p == a.body[1]
             s1 == [s EXCEPT !.pts = p.pts]
             s2 == [s1 EXCEPT !.ts = p.ts]
             s3 == [s2 EXCEPT !.key = p.key]
         IN  IF p.ts = None THEN [s |-> s1, err |-> "KeyError"]
             ELSE IF p.key = None THEN [s |-> s2, err |-> "KeyError"]
             ELSE IF p.server = None THEN [s |-> s3, err |-> "KeyError"]
             ELSE [s |-> [s3 EXCEPT !.base_url = MkUrl(k, p.server[1])], err |-> "none"]

\* the parameters of the poll GET that depend on the session
PollParams(s) == [url |-> s.base_url, ts |-> s.ts, key |-> s.key]

\* mutant: the body's failed field is read before the status
Classify_BodyFirst(status, failed) ==
    IF failed = Some(1) THEN "soft"
    ELSE IF failed = Some(4) THEN "version"
    ELSE IF Truthy(failed) THEN "invalid"
    ELSE IF status = 403 THEN "forbidden"
    ELSE "ok"

\* mutant: every failed above 1 is taken for the version error
Classify_VersionWide(status, failed) ==
    IF status = 403 THEN "forbidden"
    ELSE IF ~Truthy(failed) THEN "ok"
    ELSE IF failed = Some(1) THEN "soft"
    ELSE "version"

\* how wait() reads an answer of the GET
Classify(status, failed) ==
    IF status = 403 THEN "forbidden"
    ELSE IF ~Truthy(failed) THEN "ok"
    ELSE IF failed = Some(1) THEN "soft"
    ELSE IF failed = Some(4) THEN "version"
    ELSE "invalid"

\* mutant: failed = 1 does not store the answer's ts
AfterResponse_NoSoftTs(s, c, r) ==
    IF c = "ok" THEN [s EXCEPT !.ts = r.ts]
    ELSE IF c = "invalid" THEN [s EXCEPT !.base_url = None]
    ELSE s

\* mutant: a session-invalidating answer does not clear the endpoint
AfterResponse_KeepUrl(s, c, r) ==
    IF c \in {"ok", "soft"} THEN [s EXCEPT !.ts = r.ts]
    ELSE s

\* mutant: failed = 4 clears the endpoint before raising
AfterResponse_VersionClears(s, c, r) ==
    IF c \in {"ok", "soft"} THEN [s EXCEPT !.ts = r.ts]
    ELSE IF c \in {"invalid", "version"} THEN [s EXCEPT !.base_url = None]
    ELSE s

\* mutant: a session-invalidating answer stores its ts too
AfterResponse_TsOnInvalid(s, c, r) ==
    IF c \in {"ok", "soft"} THEN [s EXCEPT !.ts = r.ts]
    ELSE IF c = "invalid" THEN [s EXCEPT !.base_url = None, !.ts = r.ts]
    ELSE s

\* mutant: the cursor is guarded, a lower ts is not stored
AfterResponse_KeepsNewer(s, c, r) ==
    IF c \in {"ok", "soft"}
    THEN (IF s.ts # None /\ r.ts[1] < s.ts[1] THEN s ELSE [s EXCEPT !.ts = r.ts])
    ELSE IF c = "invalid" THEN [s EXCEPT !.base_url = None]
    ELSE s

\* the session fields wait() writes for an answer r of class c
AfterResponse(s, c, r) ==
    IF c \in {"ok", "soft"} THEN [s EXCEPT !.ts = r.ts]
    ELSE IF c = "invalid" THEN [s EXCEPT !.base_url = None]
    ELSE s

\* mutant: every wait() frame starts with a handoff call
EnterWait_Always(tk, s, k, need_pts) ==
    [tk EXCEPT !.pc = "handoff", !.hreq = Some(HandoffParams(k, need_pts)),
               !.hcalls = @ + 1]

\* mutant: a retry budget, the frame after MaxDepth failures gives up
EnterWait_Capped(tk, s, k, need_pts) ==
    IF Len(tk.hist) > MaxDepth
    THEN [tk EXCEPT !.pc = "done", !.stack = <<>>, !.outcome = "RetriesExhausted"]
    ELSE IF ~TruthyUrl(s.base_url)
    THEN [tk EXCEPT !.pc = "handoff", !.hreq = Some(HandoffParams(k, need_pts)),
                    !.hcalls = @ + 1]
    ELSE [tk EXCEPT !.pc = "get", !.req = Some(PollParams(s)), !.at = Some(s)]

\* a wait() frame from its first line to its first suspension point
EnterWait(tk, s, k, need_pts) ==
    IF ~TruthyUrl(s.base_url)
    THEN [tk EXCEPT !.pc = "handoff", !.hreq = Some(HandoffParams(k, need_pts)),
                    !.hcalls = @ + 1]
    ELSE [tk EXCEPT !.pc = "get", !.req = Some(PollParams(s)), !.at = Some(s)]

\* get_pts() return value
GetPtsResult(s, need_ts) == IF need_ts THEN Some(<<s.pts, s.ts>>) ELSE Some(s.pts)

\* the coroutine of a task ends: it returns ret (out = "ok") or raises out
Finish(tk, out, ret) ==
    [tk EXCEPT !.pc = "done", !.stack = <<>>, !.outcome = out, !.ret = ret]

\* a top-level call of kind op starts in task record tk
Begin(tk, op) == [IdleTask EXCEPT !.op = op, !.batch = tk.batch]

\* bookkeeping of the request a step has just issued
CountIssue(c, pc) ==
    IF ~c.on THEN c
    ELSE IF pc = "handoff" THEN [c EXCEPT !.handoffs = @ + 1]
    ELSE IF pc = "get" THEN [c EXCEPT !.polled = TRUE, !.invGet = @ + c.invPending,
                                      !.invPending = 0]
    ELSE c

\* a counted run is cut where wait() would make one more handoff call than
\* MaxHandoffs
CanEnter(s) == ~cnt.on \/ TruthyUrl(s.base_url) \/ cnt.handoffs < MaxHandoffs

Range(q) == {q[i] : i \in 1..Len(q)}

\* ---------------------------------------------------------------- actions
\* await lp.wait(need_pts)
CallWait(t, need_pts) ==
    /\ task[t].pc = "idle"
    /\ CanEnter(Session)
    /\ LET tk == EnterWait([Begin(task[t], "wait") EXCEPT
                                !.stack = <<need_pts>>,
                                !.start = IF cnt.on THEN Some(Session) ELSE None],
                           Session, kind, need_pts)
       IN  /\ task' = [task EXCEPT ![t] = tk]
           /\ cnt' = CountIssue(cnt, tk.pc)
    /\ UNCHANGED <<att, dec, kind, pts, ts, key, base_url, updSent, received, delivered, dropped>>

\* the remote *.getLongPollServer call answers a: _get_long_poll_server
\* resumes, then its caller (wait or get_pts) goes on
GetLongPollServer(t, a) ==
    /\ task[t].pc = "handoff"
    /\ a \in HandoffAnswers
    /\ LET tk == [task[t] EXCEPT !.hresp = Some(a), !.resp = None]
           r == ApplyHandoff(Session, kind, a)
       IN  /\ SetSession(r.s)
           /\ IF r.err # "none"
              THEN /\ task' = [task EXCEPT ![t] = Finish(tk, r.err, None)]
                   /\ cnt' = cnt
              ELSE IF tk.op = "get_pts"
              THEN /\ task' = [task EXCEPT ![t] = Finish(tk, "ok", GetPtsResult(r.s, tk.need_ts))]
                   /\ cnt' = cnt
              ELSE /\ task' = [task EXCEPT ![t] =
                                 [tk EXCEPT !.pc = "get", !.req = Some(PollParams(r.s)),
                                            !.at = Some(r.s)]]
                   /\ cnt' = CountIssue([cnt EXCEPT !.handoffsOk = IF cnt.on THEN @ + 1 ELSE @],
                                         "get")
    /\ UNCHANGED <<att, dec, kind, updSent, received, delivered, dropped>>

Handoff(t) == \E a \in HandoffAnswers : GetLongPollServer(t, a)

\* the answers the poll endpoint can give
Fresh(n) == [i \in 1..n |-> updSent + i]
PollAnswers ==
    {[status |-> st, failed |-> f, ts |-> Some(v), updates |-> None] :
        st \in StatusVals, f \in Opt(FailedVals), v \in TsVals}
    \cup
    {[status |-> 200, failed |-> f, ts |-> Some(v), updates |-> Some(Fresh(n))] :
        f \in {None, Some(0)}, v \in TsVals,
        n \in 0..(IF MaxUpdates - updSent < MaxBatch THEN MaxUpdates - updSent ELSE MaxBatch)}

\* mutant: the generator keeps the update it has just yielded
IterAfterWait_Dup(tk, s, k, r) ==
    IF r.updates = None THEN Finish(tk, "KeyError", None)
    ELSE IF r.updates[1] = <<>>
    THEN EnterWait([tk EXCEPT !.stack = <<FALSE>>, !.hist = <<>>, !.hcalls = 0], s, k, FALSE)
    ELSE [Finish(tk, "ok", Some(Head(r.updates[1]))) EXCEPT !.batch = r.updates[1]]

\* iter() after wait() returned r: the for loop over r['updates'], up to the
\* first yield, the next wait() or the KeyError of a missing 'updates'
IterAfterWait(tk, s, k, r) ==
    IF r.updates = None THEN Finish(tk, "KeyError", None)
    ELSE IF r.updates[1] = <<>>
    THEN EnterWait([tk EXCEPT !.stack = <<FALSE>>, !.hist = <<>>, !.hcalls = 0], s, k, FALSE)
    ELSE [Finish(tk, "ok", Some(Head(r.updates[1]))) EXCEPT !.batch = Tail(r.updates[1])]

\* driver.get_text answers r: wait() resumes and runs to its next suspension
\* point, return or raise
WaitOn(t, r) ==
    /\ task[t].pc = "get"
    /\ r \in PollAnswers
    /\ LET tk == task[t]
           c == Classify(r.status, r.failed)
           s == AfterResponse(Session, c, r)
           cleared == [tk EXCEPT !.hcalls = 0, !.resp = Some(r), !.hresp = None]
       IN  /\ c \in {"soft", "invalid"} => Len(tk.stack) <= MaxDepth /\ CanEnter(s)
           /\ SetSession(s)
           /\ CASE c = "forbidden" ->
                     /\ task' = [task EXCEPT ![t] = Finish(cleared, "VkLongPollError403", None)]
                     /\ cnt' = cnt
                     /\ UNCHANGED <<received, delivered>>
                [] c = "version" ->
                     /\ task' = [task EXCEPT ![t] = Finish(cleared, "VkLongPollError4", None)]
                     /\ cnt' = cnt
                     /\ UNCHANGED <<received, delivered>>
                [] c = "ok" /\ tk.op = "wait" ->
                     /\ task' = [task EXCEPT ![t] = Finish(cleared, "ok", Some(r))]
                     /\ cnt' = cnt
                     /\ UNCHANGED <<received, delivered>>
                [] c = "ok" /\ tk.op = "iter" ->
                     LET nk == IterAfterWait(cleared, s, kind, r)
                         u == IF r.updates = None THEN <<>> ELSE r.updates[1]
                     IN  /\ task' = [task EXCEPT ![t] = nk]
                         /\ cnt' = CountIssue(cnt, nk.pc)
                         /\ received' = received \o u
                         /\ delivered' = IF u = <<>> THEN delivered
                                         ELSE Append(delivered, Head(u))
                [] c \in {"soft", "invalid"} ->
                     LET nk == EnterWait([cleared EXCEPT
                                             !.stack = IF cnt.frames THEN Append(@, FALSE)
                                                       ELSE @,
                                             !.hist = IF cnt.frames \/ Len(@) <= MaxDepth
                                                      THEN Append(@, r.failed[1]) ELSE @],
                                         s, kind, FALSE)
                         c1 == IF c = "invalid" /\ cnt.on
                               THEN [cnt EXCEPT !.invPending = @ + 1] ELSE cnt
                     IN  /\ task' = [task EXCEPT ![t] = nk]
                         /\ cnt' = CountIssue(c1, nk.pc)
                         /\ UNCHANGED <<received, delivered>>
           /\ updSent' = updSent + (IF r.updates = None THEN 0 ELSE Len(r.updates[1]))
    /\ UNCHANGED <<att, dec, kind, dropped>>

Poll(t) == \E r \in PollAnswers : WaitOn(t, r)

\* mutant: get_pts() tests the endpoint alone
CallGetPts_UrlOnly(t, need_ts) ==
    /\ task[t].pc = "idle"
    /\ LET tk == [Begin(task[t], "get_pts") EXCEPT !.need_ts = need_ts]
       IN  IF ~TruthyUrl(base_url)
           THEN task' = [task EXCEPT ![t] =
                              [tk EXCEPT !.pc = "handoff",
                                         !.hreq = Some(HandoffParams(kind, TRUE)),
                                         !.hcalls = @ + 1]]
           ELSE task' = [task EXCEPT ![t] = Finish(tk, "ok", GetPtsResult(Session, need_ts))]
    /\ UNCHANGED <<att, dec, kind, pts, ts, key, base_url, updSent, received, delivered, dropped, cnt>>

\* await lp.get_pts(need_ts)
CallGetPts(t, need_ts) ==
    /\ task[t].pc = "idle"
    /\ LET tk == [Begin(task[t], "get_pts") EXCEPT !.need_ts = need_ts]
       IN  IF ~TruthyUrl(base_url) \/ ~Truthy(pts)
           THEN task' = [task EXCEPT ![t] =
                              [tk EXCEPT !.pc = "handoff",
                                         !.hreq = Some(HandoffParams(kind, TRUE)),
                                         !.hcalls = @ + 1]]
           ELSE task' = [task EXCEPT ![t] = Finish(tk, "ok", GetPtsResult(Session, need_ts))]
    /\ UNCHANGED <<att, dec, kind, pts, ts, key, base_url, updSent, received, delivered, dropped, cnt>>

\* the consumer asks the generator of iter() for its next item
IterNext(t) ==
    /\ task[t].pc = "idle"
    /\ IF task[t].batch # <<>>
       THEN /\ task' = [task EXCEPT ![t] =
                          [Finish(Begin(@, "iter"), "ok", Some(Head(@.batch)))
                              EXCEPT !.batch = Tail(@)]]
            /\ delivered' = Append(delivered, Head(task[t].batch))
            /\ cnt' = cnt
       ELSE /\ CanEnter(Session)
            /\ LET tk == EnterWait([Begin(task[t], "iter") EXCEPT !.stack = <<FALSE>>],
                                   Session, kind, FALSE)
               IN  /\ task' = [task EXCEPT ![t] = tk]
                   /\ cnt' = CountIssue(cnt, tk.pc)
            /\ delivered' = delivered
    /\ UNCHANGED <<att, dec, kind, pts, ts, key, base_url, updSent, received, dropped>>

\* mutant: a new iter() forgets the endpoint
IterNew_Reset(t) ==
    /\ task[t].pc = "idle"
    /\ task[t].batch # <<>>
    /\ task' = [task EXCEPT ![t] = [@ EXCEPT !.batch = <<>>]]
    /\ dropped' = dropped \cup Range(task[t].batch)
    /\ base_url' = None
    /\ UNCHANGED <<att, dec, kind, pts, ts, key, updSent, received, delivered, cnt>>

\* the consumer abandons the generator and calls iter() again
IterNew(t) ==
    /\ task[t].pc = "idle"
    /\ task[t].batch # <<>>
    /\ task' = [task EXCEPT ![t] = [@ EXCEPT !.batch = <<>>]]
    /\ dropped' = dropped \cup Range(task[t].batch)
    /\ UNCHANGED <<att, dec, kind, pts, ts, key, base_url, updSent, received, delivered, cnt>>

\* the caller takes what the coroutine returned or raised
Return(t) ==
    /\ task[t].pc = "done"
    /\ task' = [task EXCEPT ![t] = [IdleTask EXCEPT !.batch = task[t].batch]]
    /\ UNCHANGED <<att, dec, kind, pts, ts, key, base_url, updSent, received, delivered, dropped, cnt>>

\* mutant: the cancelled call forgets the endpoint as it unwinds
Cancel_ClearsUrl(t) ==
    /\ task[t].pc \in {"handoff", "get"}
    /\ task' = [task EXCEPT ![t] = Finish(@, "CancelledError", None)]
    /\ base_url' = None
    /\ UNCHANGED <<att, dec, kind, pts, ts, key, updSent, received, delivered, dropped, cnt>>

\* the task is cancelled while it awaits the remote call or the GET:
\* CancelledError is raised at the await and unwinds every wait() frame (no
\* frame catches it, none has a finally block)
Cancel(t) ==
    /\ task[t].pc \in {"handoff", "get"}
    /\ task' = [task EXCEPT ![t] = Finish(@, "CancelledError", None)]
    /\ UNCHANGED <<att, dec, kind, pts, ts, key, base_url, updSent, received, delivered, dropped, cnt>>

Step(t) ==
    \/ \E need_pts \in BOOLEAN : CallWait(t, need_pts)
    \/ Handoff(t)
    \/ Poll(t)
    \/ \E need_ts \in BOOLEAN : CallGetPts(t, need_ts)
    \/ IterNext(t)
    \/ IterNew(t)
    \/ Return(t)

\* one task polls the session (the single-writer discipline)
Next == \E t \in SeqTasks : Step(t)

Spec == Init /\ [][Next]_vars

\* a fresh session used through wait() alone, its calls counted
WaitStep(t) ==
    \/ \E need_pts \in BOOLEAN : CallWait(t, need_pts)
    \/ Handoff(t)
    \/ Poll(t)
    \/ Return(t)

NextWait == \E t \in SeqTasks : WaitStep(t)

SpecWait == InitCounted /\ [][NextWait]_vars

\* the answers of the GET that end a wait() call
Ending(r) == Classify(r.status, r.failed) \in {"forbidden", "version", "ok"}
EndingPoll(t) == \E r \in PollAnswers : Ending(r) /\ WaitOn(t, r)

\* one wait() call on a fresh session
LiveStep(t) ==
    \/ \E need_pts \in BOOLEAN : CallWait(t, need_pts)
    \/ Handoff(t)
    \/ Poll(t)

NextLive == \E t \in SeqTasks : LiveStep(t)

\* wait() against a server that answers every handoff call and every GET and
\* that does not withhold an ending answer forever
SpecLive ==
    /\ InitFlat
    /\ [][NextLive]_vars
    /\ \A t \in SeqTasks : /\ WF_vars(Handoff(t))
                            /\ WF_vars(Poll(t))
                            /\ SF_vars(EndingPoll(t))

\* two tasks call wait() on one session: the first any number of times, the
\* second once; the server answers every handoff call a complete payload and
\* every GET a batch or a session-invalidating failed
TwoHandoffAnswers ==
    {a \in HandoffAnswers :
        /\ ~a.raised
        /\ a.body[1].pts = None /\ a.body[1].ts # None
        /\ a.body[1].key = Some("k1") /\ a.body[1].server = Some("s1")}
TwoPollAnswers ==
    {r \in PollAnswers : r.status = 200 /\ r.failed \in {None, Some(2)}}

TwoStep(t) ==
    \/ \E need_pts \in BOOLEAN : CallWait(t, need_pts)
    \/ \E a \in TwoHandoffAnswers : GetLongPollServer(t, a)
    \/ \E r \in TwoPollAnswers : WaitOn(t, r)
    \/ t \in SeqTasks /\ Return(t)

NextTwo == \E t \in Tasks : TwoStep(t)

SpecTwo == InitCounted /\ [][NextTwo]_vars

\* wait() calls that their caller may cancel, the bookkeeping kept
CancelStep(t) ==
    \/ \E need_pts \in BOOLEAN : CallWait(t, need_pts)
    \/ Handoff(t)
    \/ Poll(t)
    \/ Cancel(t)
    \/ Return(t)

NextCancel == \E t \in SeqTasks : CancelStep(t)

SpecCancel == InitCounted /\ [][NextCancel]_vars

TypeOK ==
    /\ kind \in Kinds
    /\ pts \in Opt(PtsVals)
    /\ ts \in Opt(TsVals)
    /\ key \in Opt(KeyVals)
    /\ base_url \in {None} \cup {MkUrl(kind, sv) : sv \in ServerVals}
    /\ \A t \in Tasks : task[t].pc \in {"idle", "handoff", "get", "done"}

\* ------------------------------------------------------ claims C1 .. C10
\* what an answer r of the GET is, read off its fields alone
IsForbidden(r) == r.status = 403
IsPlain(r) == r.status = 200 /\ r.failed \in {None, Some(0)}
IsSoft(r) == r.status = 200 /\ r.failed = Some(1)
IsVersion(r) == r.status = 200 /\ r.failed = Some(4)
IsInvalidating(r) == r.status = 200 /\ r.failed \notin {None, Some(0), Some(1), Some(4)}

\* the step in which wait() of task t resumes with the answer task'[t].resp
Answered(t) == task[t].pc = "get" /\ task'[t] # task[t]
\* the step in which the handoff call of task t answers task'[t].hresp
HandedOff(t) == task[t].pc = "handoff" /\ task'[t] # task[t]

\* C1: an answer with failed = 1 makes wait() store that answer's ts and
\* issue its next GET to the same endpoint with the same key, the new cursor
\* and no handoff call; an answer without failed is returned to the caller of
\* wait() and its ts is the session's cursor.
C1_SoftResync ==
    [][\A t \in SeqTasks :
          /\ (Answered(t) /\ IsSoft(task'[t].resp[1])) =>
                /\ ts' = task'[t].resp[1].ts
                /\ base_url' = base_url /\ key' = key
                /\ task'[t].pc = "get"
                /\ task'[t].hcalls = 0
                /\ task'[t].req = Some([url |-> task[t].req[1].url,
                                        ts |-> task'[t].resp[1].ts,
                                        key |-> task[t].req[1].key])
          /\ (Answered(t) /\ IsPlain(task'[t].resp[1]) /\ task[t].op = "wait") =>
                /\ ts' = task'[t].resp[1].ts
                /\ task'[t].pc = "done"
                /\ task'[t].outcome = "ok"
                /\ task'[t].ret = task'[t].resp
      ]_vars

\* {failed: 1} then {ts: 105, updates}: returned, cursor 105, no handoff since
C1_Witness ==
    \E t \in SeqTasks :
        /\ task[t].pc = "done" /\ task[t].op = "wait" /\ task[t].outcome = "ok"
        /\ task[t].hist = <<1>>
        /\ task[t].hcalls = 0
        /\ task[t].ret[1].ts = Some(105) /\ task[t].ret[1].updates # None
        /\ task[t].req[1].ts = Some(100)
        /\ ts = Some(105)

\* C2: after an answer whose failed is truthy and neither 1 nor 4, wait()
\* clears the endpoint and makes one handoff call; when that call answers a
\* complete payload the next GET goes out at once with the endpoint, key and
\* cursor of that payload, otherwise wait() raises and no GET goes out; the
\* call makes no second handoff call before that GET.
C2_Rehandoff ==
    [][\A t \in SeqTasks :
          /\ (Answered(t) /\ IsInvalidating(task'[t].resp[1])) =>
                /\ base_url' = None
                /\ task'[t].pc = "handoff"
                /\ task'[t].hcalls = 1
          /\ (HandedOff(t) /\ task[t].op \in {"wait", "iter"}) =>
                LET a == task'[t].hresp[1]
                IN  IF ~a.raised /\ a.body[1].ts # None /\ a.body[1].key # None
                                 /\ a.body[1].server # None
                    THEN /\ task'[t].pc = "get"
                         /\ task'[t].hcalls = 1
                         /\ task'[t].req =
                               Some([url |-> IF kind = "user"
                                             THEN <<"https://", a.body[1].server[1]>>
                                             ELSE <<a.body[1].server[1]>>,
                                     ts |-> a.body[1].ts,
                                     key |-> a.body[1].key])
                    ELSE /\ task'[t].pc = "done"
                         /\ task'[t].outcome \in {"ApiError", "KeyError"}
      ]_vars

\* a GET in flight that follows {failed: 2}, one handoff call and a new key
C2_Witness ==
    \E t \in SeqTasks :
        /\ task[t].pc = "get"
        /\ task[t].hist = <<2>>
        /\ task[t].hcalls = 1
        /\ task[t].req[1].key = Some("k2")
        /\ task[t].req[1].ts = Some(105)

\* C3 as stated: once wait() has raised the version error the endpoint is
\* unset.
C3_EndpointUnsetAfterVersionError ==
    \A t \in SeqTasks :
        (task[t].pc = "done" /\ task[t].outcome = "VkLongPollError4") => base_url = None

\* C3 as amended: an answer with failed = 4 makes wait() raise the version
\* error with no further GET or handoff call, and the endpoint, key, cursor
\* and change-pointer stay as they were: the endpoint is still set.
C3_VersionErrorKeepsSession ==
    [][\A t \in SeqTasks :
          (Answered(t) /\ IsVersion(task'[t].resp[1])) =>
              /\ task'[t].pc = "done"
              /\ task'[t].outcome = "VkLongPollError4"
              /\ task'[t].ret = None
              /\ <<pts, ts, key, base_url>>' = <<pts, ts, key, base_url>>
              /\ base_url' # None
      ]_vars

C3_Witness ==
    \E t \in SeqTasks :
        /\ task[t].pc = "done" /\ task[t].outcome = "VkLongPollError4"
        /\ task[t].resp # None
        /\ base_url # None

\* C4: an answer with status 403 makes wait() raise whatever the body's
\* failed field is, with no further GET or handoff call, and the cursor, key,
\* endpoint and change-pointer are what they were when the GET was issued.
C4_Forbidden ==
    \A t \in SeqTasks :
        (task[t].resp # None /\ IsForbidden(task[t].resp[1])) =>
            /\ task[t].pc = "done"
            /\ task[t].outcome = "VkLongPollError403"
            /\ task[t].ret = None
            /\ Session = task[t].at[1]

\* a 403 whose body says failed = 1, after a soft resync inside the call
C4_Witness ==
    \E t \in SeqTasks :
        /\ task[t].pc = "done" /\ task[t].outcome = "VkLongPollError403"
        /\ task[t].resp[1].failed = Some(1)
        /\ task[t].hist = <<1>>
        /\ Session = task[t].at[1]

\* C5: a wait() call ends only by returning an answer of status 200 whose
\* failed is absent or falsy, or by raising for a 403, for failed = 4 or for a
\* failed handoff; an answer with failed = 1 or a session-invalidating failed
\* neither is returned nor raises: the call goes on to its next request.
C5_WaitEnds ==
    \A t \in SeqTasks :
        /\ (task[t].pc = "done" /\ task[t].op = "wait") =>
              \/ /\ task[t].resp # None /\ IsPlain(task[t].resp[1])
                 /\ task[t].outcome = "ok" /\ task[t].ret = task[t].resp
              \/ /\ task[t].resp # None /\ IsForbidden(task[t].resp[1])
                 /\ task[t].outcome = "VkLongPollError403"
              \/ /\ task[t].resp # None /\ IsVersion(task[t].resp[1])
                 /\ task[t].outcome = "VkLongPollError4"
              \/ /\ task[t].hresp # None
                 /\ task[t].outcome \in {"ApiError", "KeyError"}
        /\ (task[t].resp # None
               /\ (IsSoft(task[t].resp[1]) \/ IsInvalidating(task[t].resp[1]))) =>
              task[t].pc \in {"get", "handoff"}

\* a wait() call that returned {failed: 0} after as many retries as the run allows
C5_Witness ==
    \E t \in SeqTasks :
        /\ task[t].pc = "done" /\ task[t].op = "wait" /\ task[t].outcome = "ok"
        /\ Len(task[t].hist) = MaxDepth
        /\ task[t].ret[1].failed = Some(0)

C7_CursorNeverDecreases ==
    [][\A t \in SeqTasks : Answered(t) => ts'[1] >= ts[1]]_vars

\* C7 as amended: wait() stores the ts of an answer without failed or with
\* failed = 1 as it comes and leaves the cursor alone for every other answer,
\* so the cursor does not decrease as long as the server answers no ts lower
\* than the ts the GET carried.
C7_CursorFollowsServer ==
    [][\A t \in SeqTasks :
          Answered(t) =>
              LET r == task'[t].resp[1]
              IN  /\ ts' = IF IsPlain(r) \/ IsSoft(r) THEN r.ts ELSE ts
                  /\ r.ts[1] >= task[t].req[1].ts[1] => ts'[1] >= ts[1]
      ]_vars

\* a poll sent with cursor 100 moved the cursor to 105
C7_Witness ==
    \E t \in SeqTasks :
        /\ task[t].pc = "done" /\ task[t].outcome = "ok" /\ task[t].op = "wait"
        /\ task[t].req[1].ts = Some(100)
        /\ ts = Some(105)

\* C8 as stated (SpecWait): whenever a GET is in flight the number of handoff
\* calls is one plus the number of session-invalidating answers that were
\* followed by a GET.
C8_HandoffCallCount ==
    \A t \in SeqTasks : task[t].pc = "get" => cnt.handoffs = 1 + cnt.invGet

\* C8 as amended (SpecWait): a wait() frame makes a handoff call exactly when
\* the endpoint is unset as the frame starts; whenever a GET is in flight
\* the endpoint is set and the number of handoff calls that succeeded is one
\* plus the number of session-invalidating answers that were followed by a
\* GET (a handoff call that fails is followed by a further one).
C8_HandoffIffUnset ==
    [][\A t \in SeqTasks :
          /\ (task[t].pc \in {"idle", "get"} /\ task'[t].pc \in {"handoff", "get"}) =>
                (task'[t].pc = "handoff" <=> base_url' = None)
          /\ task'[t].pc = "get" =>
                /\ base_url' # None
                /\ cnt'.handoffsOk = 1 + cnt'.invGet
      ]_vars

\* a GET in flight after a failed handoff call and a successful one
C8_Witness ==
    \E t \in SeqTasks :
        /\ task[t].pc = "get"
        /\ cnt.handoffs = 2 /\ cnt.handoffsOk = 1 /\ cnt.invGet = 0

\* C9: while no generator of iter() is abandoned, what iter() has yielded
\* followed by what its generator still holds is the concatenation of the
\* update lists wait() returned to it, and the generator holds nothing while
\* its next poll is under way.
C9_IterYieldsInOrder ==
    \A t \in SeqTasks :
        /\ dropped = {} => received = delivered \o task[t].batch
        /\ (task[t].op = "iter" /\ task[t].pc \in {"handoff", "get"}) => task[t].batch = <<>>

\* three updates in two batches, all yielded
C9_Witness ==
    \E t \in SeqTasks :
        /\ delivered = <<1, 2, 3>> /\ dropped = {}
        /\ task[t].pc = "done" /\ task[t].op = "iter"

\* C10 as stated: when iter() polls again, every update wait() returned to
\* iter() so far has been yielded, whether or not a generator was abandoned.
C10_NothingSkipped ==
    \A t \in SeqTasks :
        (task[t].op = "iter" /\ task[t].pc = "get") => delivered = received

KeptOf(q, gone) == SelectSeq(q, LAMBDA x : x \notin gone)

\* C10 as amended: a new iter() leaves the session as it is and its first
\* poll carries the preserved endpoint, key and cursor; no update is yielded
\* twice; the updates never yielded are exactly the rest of the batch each
\* abandoned generator still held (and what the current generator holds).
C10_RestartLosesRestOfBatch ==
    [][\A t \in SeqTasks :
          /\ (task[t].pc = "idle" /\ task'[t].pc = "idle" /\ task'[t] # task[t]) =>
                <<pts, ts, key, base_url>>' = <<pts, ts, key, base_url>>
          /\ (task[t].pc = "idle" /\ task'[t].op = "iter" /\ task'[t].pc = "get") =>
                task'[t].req = Some([url |-> base_url, ts |-> ts, key |-> key])
          /\ delivered' = KeptOf(received', dropped' \cup Range(task'[t].batch))
          /\ dropped' \subseteq Range(received')
          /\ Cardinality(Range(delivered')) = Len(delivered')
      ]_vars

\* update 2 was lost with the abandoned generator, 3 came through the new one
C10_Witness ==
    \E t \in SeqTasks :
        /\ delivered = <<1, 3>> /\ dropped = {2} /\ received = <<1, 2, 3>>
        /\ task[t].batch = <<>>

\* ----------------------------------------------------- claims C11 .. C13
\* the step in which the pending await of task t is cancelled
Cancelled(t) == task[t].pc \in {"handoff", "get"} /\ task'[t].outcome = "CancelledError"

\* C11 as stated (SpecCancel): once a wait() call was cancelled, the cursor
\* and the endpoint are what they were when that call started.
C11_CancelRestoresStart ==
    \A t \in SeqTasks :
        (task[t].pc = "done" /\ task[t].outcome = "CancelledError") =>
            /\ ts = task[t].start[1].ts
            /\ base_url = task[t].start[1].base_url

\* C11 as amended (SpecCancel): cancelling a wait() call at a suspension
\* point writes no session field, so cursor, endpoint, key and change-pointer
\* are what they were when the pending request was issued; they are those of
\* the start of the call when the call is cancelled at its first suspension
\* point, and what the call stored before (a handoff payload, the ts of a
\* failed = 1 answer, the cleared endpoint) is not undone.
C11_CancelWritesNothing ==
    [][\A t \in SeqTasks :
          Cancelled(t) =>
              /\ <<pts, ts, key, base_url>>' = <<pts, ts, key, base_url>>
              /\ task'[t].pc = "done"
              /\ task[t].pc = "get" => Session' = task[t].at[1]
              /\ (task[t].hist = <<>> /\ (task[t].pc = "handoff" \/ task[t].hcalls = 0)) =>
                    Session' = task[t].start[1]
              /\ (task[t].hist # <<>> /\ task[t].resp # None /\ IsSoft(task[t].resp[1])) =>
                    ts' = task[t].resp[1].ts
              /\ (task[t].pc = "handoff" /\ task[t].hist # <<>>) => base_url' = None
      ]_vars

\* a call that started with cursor 100 was cancelled after a soft resync had
\* moved the cursor to 105
C11_Witness ==
    \E t \in SeqTasks :
        /\ task[t].pc = "done" /\ task[t].outcome = "CancelledError"
        /\ task[t].hist = <<1>>
        /\ task[t].start[1].ts = Some(100) /\ task[t].start[1].base_url # None
        /\ ts = Some(105)

\* C12: when the handoff call that wait() makes raises, or answers a payload
\* without ts or without key, wait() raises that error to its caller, issues
\* no GET, makes no further handoff call, and the endpoint stays unset.
C12_HandoffFailurePropagates ==
    [][\A t \in SeqTasks :
          (/\ HandedOff(t) /\ task[t].op \in {"wait", "iter"}
           /\ \/ task'[t].hresp[1].raised
              \/ task'[t].hresp[1].body[1].ts = None
              \/ task'[t].hresp[1].body[1].key = None) =>
              /\ task'[t].pc = "done"
              /\ task'[t].outcome =
                    (IF task'[t].hresp[1].raised THEN "ApiError" ELSE "KeyError")
              /\ task'[t].ret = None
              /\ task'[t].req = task[t].req
              /\ task'[t].hcalls = task[t].hcalls
              /\ base_url = None /\ base_url' = None
      ]_vars

\* wait() raised KeyError for a payload with ts and server but no key, while
\* it re-established the session after {failed: 2}
C12_Witness ==
    \E t \in SeqTasks :
        /\ task[t].pc = "done" /\ task[t].op = "wait" /\ task[t].outcome = "KeyError"
        /\ task[t].hist = <<2>>
        /\ task[t].hresp[1].body[1].key = None
        /\ task[t].hresp[1].body[1].ts # None
        /\ task[t].hresp[1].body[1].server # None
        /\ base_url = None

\* the step in which task t calls get_pts()
GetPtsCalled(t) == task[t].pc = "idle" /\ task'[t].op = "get_pts"

\* C13 as stated: get_pts() issues no GET; it makes a handoff call only when
\* the endpoint or the change-pointer is unset, and that call requests the
\* change-pointer; when both are set it makes no remote call, leaves the
\* session as it is and returns the stored change-pointer (and cursor).
C13_GetPtsHandoffOnlyWhenUnset ==
    [][\A t \in SeqTasks :
          GetPtsCalled(t) =>
              /\ task'[t].pc # "get"
              /\ task'[t].pc = "handoff" =>
                    /\ base_url = None \/ pts = None
                    /\ task'[t].hreq[1].need_pts = Some(1)
              /\ (base_url # None /\ pts # None) =>
                    /\ task'[t].pc = "done" /\ task'[t].hreq = None
                    /\ <<pts, ts, key, base_url>>' = <<pts, ts, key, base_url>>
      ]_vars

\* C13 as amended: get_pts() issues no GET; it makes a handoff call exactly
\* when the endpoint is unset or the change-pointer is unset or 0; the call of
\* the user kind carries need_pts = 1, the call of the bots kind carries no
\* need_pts; otherwise it makes no remote call, leaves endpoint, key, cursor
\* and change-pointer as they are and returns the stored change-pointer (with
\* the cursor when asked). After the handoff call it returns what the payload
\* stored, or raises the error of the handoff.
C13_GetPtsHandoffWhenFalsy ==
    [][\A t \in SeqTasks :
          /\ GetPtsCalled(t) =>
                /\ task'[t].pc \in {"handoff", "done"} /\ task'[t].req = None
                /\ task'[t].pc = "handoff" <=>
                      (base_url = None \/ pts = None \/ pts = Some(0))
                /\ task'[t].pc = "handoff" =>
                      task'[t].hreq =
                          Some(IF kind = "user"
                               THEN [method |-> "messages.getLongPollServer",
                                     need_pts |-> Some(1)]
                               ELSE [method |-> "groups.getLongPollServer",
                                     need_pts |-> None])
                /\ task'[t].pc = "done" =>
                      /\ task'[t].hreq = None /\ task'[t].outcome = "ok"
                      /\ <<pts, ts, key, base_url>>' = <<pts, ts, key, base_url>>
                      /\ task'[t].ret = IF task'[t].need_ts THEN Some(<<pts, ts>>)
                                        ELSE Some(pts)
          /\ (HandedOff(t) /\ task[t].op = "get_pts") =>
                /\ task'[t].pc = "done" /\ task'[t].req = None
                /\ task'[t].outcome = "ok" =>
                      task'[t].ret = IF task[t].need_ts THEN Some(<<pts', ts'>>)
                                     ELSE Some(pts')
      ]_vars

\* get_pts(need_ts = True) on an established session with change-pointer 7:
\* no remote call, (7, 105) returned
C13_Witness ==
    \E t \in SeqTasks :
        /\ task[t].pc = "done" /\ task[t].op = "get_pts" /\ task[t].outcome = "ok"
        /\ task[t].hreq = None
        /\ task[t].ret = Some(<<Some(7), Some(105)>>)
        /\ base_url # None

\* ------------------------------------------------- the event decoders
CHAT_START_ID == 2000000000

\* VkEventType
MESSAGE_FLAGS_REPLACE == 1
MESSAGE_NEW == 4
MESSAGE_EDIT == 5
USER_ONLINE == 8
USER_OFFLINE == 9
PEER_FLAGS_REPLACE == 11
CHAT_UPDATE == 52
USER_RECORDING_VOICE == 64
NOTIFICATION_SETTINGS_UPDATE == 114
VkEventType == {1, 2, 3, 4, 5, 6, 7, 8, 9, 10, 11, 12, 13, 14, 51, 52, 61, 62, 64, 70, 80, 114}

VkPlatform == 1..7
VkOfflineType == {0, 1}
OUTBOX == 2
VkMessageFlag == {1, 2, 4, 8, 16, 32, 64, 128, 256, 512, 65536, 131072}
VkPeerFlag == {1, 2}
VkChatEventType == {1, 2, 3, 4, 5, 6, 7, 8, 9, 11}

MESSAGE_EXTRA_FIELDS ==
    <<"peer_id", "timestamp", "text", "extra_values", "attachments", "random_id">>

EVENT_ATTRS_MAPPING(ty) ==
    CASE ty \in {1, 4} -> <<"message_id", "flags">> \o MESSAGE_EXTRA_FIELDS
      [] ty \in {2, 3, 5} -> <<"message_id", "mask">> \o MESSAGE_EXTRA_FIELDS
      [] ty \in {6, 7, 13, 14} -> <<"peer_id", "local_id">>
      [] ty = 8 -> <<"user_id", "extra", "timestamp">>
      [] ty = 9 -> <<"user_id", "flags", "timestamp">>
      [] ty \in {10, 12} -> <<"peer_id", "mask">>
      [] ty = 11 -> <<"peer_id", "flags">>
      [] ty = 51 -> <<"chat_id", "self">>
      [] ty = 52 -> <<"type_id", "peer_id", "info">>
      [] ty = 61 -> <<"user_id", "flags">>
      [] ty = 62 -> <<"user_id", "chat_id">>
      [] ty = 64 -> <<"peer_id", "user_id", "flags", "timestamp">>
      [] ty = 70 -> <<"user_id", "call_id">>
      [] ty = 80 -> <<"count">>
      [] ty = 114 -> <<"values">>

PARSE_PEER_ID_EVENTS ==
    {ty \in VkEventType : \E i \in 1..Len(EVENT_ATTRS_MAPPING(ty)) :
                              EVENT_ATTRS_MAPPING(ty)[i] = "peer_id"}
PARSE_MESSAGE_FLAGS_EVENTS == {MESSAGE_FLAGS_REPLACE, MESSAGE_NEW}

\* the attributes __init__ sets to None before it reads raw
InitAttrs ==
    {"message_id", "timestamp", "peer_id", "flags", "extra", "extra_values",
     "type_id", "group_id", "text", "pad_id", "message_data"}

\* every attribute name an event of the modelled inputs can get
AttrNames ==
    InitAttrs \cup
    {"mask", "attachments", "random_id", "local_id", "user_id", "chat_id", "self",
     "info", "call_id", "count", "values", "from", "title", "attach1", "attach1_type",
     "sound", "disabled_until", "message", "message_flags", "peer_flags",
     "update_type", "platform", "offline_type", "datetime",
     "from_id", "conversation_message_id", "attachments_ids"}

\* Python's a & b on non-negative integers
RECURSIVE BitAnd(_, _)
BitAnd(a, b) ==
    IF a = 0 \/ b = 0 THEN 0
    ELSE (a % 2) * (b % 2) + 2 * BitAnd(a \div 2, b \div 2)

Abs(n) == IF n < 0 THEN -n ELSE n
Min(a, b) == IF a < b THEN a ELSE b

\* s[i:] of a string
Drop(s, n) == SubSeq(s, n + 1, Len(s))
StartsWith(s, pat) == Len(s) >= Len(pat) /\ SubSeq(s, 1, Len(pat)) = pat

\* str.replace(pat, rep): the occurrences of pat, found from the left and not
\* overlapping, are replaced by rep
RECURSIVE Replace(_, _, _)
Replace(s, pat, rep) ==
    IF s = <<>> THEN <<>>
    ELSE IF StartsWith(s, pat) THEN rep \o Replace(Drop(s, Len(pat)), pat, rep)
    ELSE <<Head(s)>> \o Replace(Tail(s), pat, rep)

Digits == <<"0", "1", "2", "3", "4", "5", "6", "7", "8", "9">>
IsDigits(s) == s # <<>> /\ \A i \in 1..Len(s) : \E d \in 1..10 : Digits[d] = s[i]
\* int(s) of a string of decimal digits
RECURSIVE ParseInt(_)
ParseInt(s) ==
    IF s = <<>> THEN 0
    ELSE 10 * ParseInt(SubSeq(s, 1, Len(s) - 1))
         + (CHOOSE d \in 0..9 : Digits[d + 1] = s[Len(s)])

\* the string constants of _parse_message
BR == <<"<", "b", "r", ">">>
NL == <<"\n">>
AMP == <<"&", "a", "m", "p", ";">>
LT == <<"&", "l", "t", ";">>
GT == <<"&", "g", "t", ";">>
QUOT == <<"&", "q", "u", "o", "t", ";">>

\* MessageEvent.__init__ up to the try block: the flags are False, the
\* attributes of InitAttrs None, attachments an empty dict (attachments_ids,
\* keyboard, fwd_messages and state are set too; decoding never touches them)
NewEvent(raw) ==
    [raw |-> raw, type |-> None,
     from_user |-> FALSE, from_chat |-> FALSE, from_group |-> FALSE,
     from_me |-> FALSE, to_me |-> FALSE,
     has |-> InitAttrs \cup {"attachments"},
     a |-> [n \in AttrNames |-> IF n = "attachments" THEN Some(<<>>) ELSE None],
     err |-> "none"]

\* the exception err leaves the constructor
Raise(e, err) == [e EXCEPT !.err = err]

\* self.__setattr__(n, v)
SetAttr(e, n, v) == [e EXCEPT !.has = @ \cup {n}, !.a[n] = v]

\* _list_to_attr: the first min(len(raw), len(attrs)) names get the values
ListToAttr(e, vals, attrs) ==
    LET m == Min(Len(vals), Len(attrs))
        at(n) == CHOOSE i \in 1..m : attrs[i] = n
    IN  [e EXCEPT !.has = @ \cup {attrs[i] : i \in 1..m},
                  !.a = [n \in AttrNames |->
                            IF \E i \in 1..m : attrs[i] = n THEN Some(vals[at(n)])
                            ELSE @[n]]]

\* _dict_to_attr: every key of the dict becomes an attribute
DictToAttr(e, d) ==
    [e EXCEPT !.has = @ \cup DOMAIN d,
              !.a = [n \in AttrNames |-> IF n \in DOMAIN d THEN Some(d[n]) ELSE @[n]]]

\* Python truthiness of an optional dict
TruthyDict(x) == x # None /\ DOMAIN x[1] # {}

\* mutant: the chat threshold itself counts as a chat
ParsePeerId_ChatFromThreshold(e) ==
    IF e.a["peer_id"] = None THEN Raise(e, "TypeError")
    ELSE LET p == e.a["peer_id"][1]
             xv == e.a["extra_values"]
         IN  IF p < 0
             THEN SetAttr([e EXCEPT !.from_group = TRUE], "group_id", Some(Abs(p)))
             ELSE IF p >= CHAT_START_ID
             THEN LET e1 == SetAttr([e EXCEPT !.from_chat = TRUE], "chat_id",
                                    Some(p - CHAT_START_ID))
                  IN  IF TruthyDict(xv) /\ "from" \in DOMAIN xv[1]
                      THEN IF IsDigits(xv[1]["from"])
                           THEN SetAttr(e1, "user_id", Some(ParseInt(xv[1]["from"])))
                           ELSE Raise(e1, "ValueError")
                      ELSE e1
             ELSE SetAttr([e EXCEPT !.from_user = TRUE], "user_id", Some(p))

\* _parse_peer_id (None < 0 raises TypeError)
ParsePeerId(e) ==
    IF e.a["peer_id"] = None THEN Raise(e, "TypeError")
    ELSE LET p == e.a["peer_id"][1]
             xv == e.a["extra_values"]
         IN  IF p < 0
             THEN SetAttr([e EXCEPT !.from_group = TRUE], "group_id", Some(Abs(p)))
             ELSE IF p > CHAT_START_ID
             THEN LET e1 == SetAttr([e EXCEPT !.from_chat = TRUE], "chat_id",
                                    Some(p - CHAT_START_ID))
                  IN  IF TruthyDict(xv) /\ "from" \in DOMAIN xv[1]
                      THEN IF IsDigits(xv[1]["from"])
                           THEN SetAttr(e1, "user_id", Some(ParseInt(xv[1]["from"])))
                           ELSE Raise(e1, "ValueError")
                      ELSE e1
             ELSE SetAttr([e EXCEPT !.from_user = TRUE], "user_id", Some(p))

\* mutant: a flag counts only when it is the whole value
ParseMessageFlags_Equal(e) ==
    IF e.a["flags"] = None THEN Raise(e, "TypeError")
    ELSE SetAttr(e, "message_flags",
                 Some({x \in VkMessageFlag : e.a["flags"][1] = x}))

\* _parse_message_flags (None & x raises TypeError)
ParseMessageFlags(e) ==
    IF e.a["flags"] = None THEN Raise(e, "TypeError")
    ELSE SetAttr(e, "message_flags",
                 Some({x \in VkMessageFlag : BitAnd(e.a["flags"][1], x) # 0}))

\* _parse_peer_flags
ParsePeerFlags(e) ==
    IF e.a["flags"] = None THEN Raise(e, "TypeError")
    ELSE SetAttr(e, "peer_flags",
                 Some({x \in VkPeerFlag : BitAnd(e.a["flags"][1], x) # 0}))

\* mutant: the ampersand is unescaped first
Unescape_AmpFirst(s) ==
    Replace(Replace(Replace(Replace(s, AMP, <<"&">>), LT, <<"<">>), GT, <<">">>),
            QUOT, <<"\"">>)

\* the chain of replace calls that makes message out of text
Unescape(s) ==
    Replace(Replace(Replace(Replace(s, LT, <<"<">>), GT, <<">">>), QUOT, <<"\"">>),
            AMP, <<"&">>)

\* _parse_message, its first statement: the direction of a new message
ParseDirection(e) ==
    IF e.type # Some(MESSAGE_NEW) THEN e
    ELSE IF e.a["flags"] = None THEN Raise(e, "TypeError")
    ELSE IF BitAnd(e.a["flags"][1], OUTBOX) # 0 THEN [e EXCEPT !.from_me = TRUE]
    ELSE [e EXCEPT !.to_me = TRUE]

\* _parse_message (None.replace raises AttributeError)
ParseMessage(e) ==
    LET e1 == ParseDirection(e)
    IN  IF e1.err # "none" THEN e1
        ELSE IF e1.a["text"] = None THEN Raise(e1, "AttributeError")
        ELSE LET text == Replace(e1.a["text"][1], BR, NL)
             IN  SetAttr(SetAttr(e1, "text", Some(text)), "message", Some(Unescape(text)))

\* _parse_online_status: an unknown platform or offline value leaves the
\* attribute unset (ValueError is caught), None & 0xFF raises TypeError
ParseOnlineStatus(e) ==
    IF e.type = Some(USER_ONLINE)
    THEN IF e.a["extra"] = None THEN Raise(e, "TypeError")
         ELSE IF BitAnd(e.a["extra"][1], 255) \in VkPlatform
         THEN SetAttr(e, "platform", Some(BitAnd(e.a["extra"][1], 255)))
         ELSE e
    ELSE IF e.a["flags"] # None /\ e.a["flags"][1] \in VkOfflineType
    THEN SetAttr(e, "offline_type", e.a["flags"])
    ELSE e

\* _parse_chat_info: info is wrapped by the sub-type; reading an info that
\* was never assigned raises AttributeError
ParseChatInfo(e) ==
    LET wrap == IF e.a["type_id"] = Some(3) THEN "admin_id"
               ELSE IF e.a["type_id"] = Some(5) THEN "conversation_message_id"
               ELSE IF e.a["type_id"] \in {Some(6), Some(7), Some(8), Some(9)} THEN "user_id"
               ELSE "none"
    IN  IF wrap = "none" THEN e
        ELSE IF "info" \notin e.has THEN Raise(e, "AttributeError")
        ELSE SetAttr(e, "info", Some([k |-> wrap, v |-> e.a["info"]]))

\* the branch of __init__ chosen by the event type
ParseByType(e) ==
    IF e.type = Some(CHAT_UPDATE)
    THEN LET e1 == ParseChatInfo(e)
         IN  IF e1.err # "none" THEN e1 ELSE SetAttr(e1, "update_type", e1.a["type_id"])
    ELSE IF e.type = Some(NOTIFICATION_SETTINGS_UPDATE)
    THEN IF "values" \notin e.has THEN Raise(e, "AttributeError")
         ELSE ParsePeerId(DictToAttr(e, e.a["values"][1]))
    ELSE IF e.type = Some(PEER_FLAGS_REPLACE) THEN ParsePeerFlags(e)
    ELSE IF e.type \in {Some(MESSAGE_NEW), Some(MESSAGE_EDIT)} THEN ParseMessage(e)
    ELSE IF e.type \in {Some(USER_ONLINE), Some(USER_OFFLINE)}
    THEN IF "user_id" \notin e.has THEN Raise(e, "AttributeError")
         ELSE ParseOnlineStatus(SetAttr(e, "user_id", Some(Abs(e.a["user_id"][1]))))
    ELSE IF e.type = Some(USER_RECORDING_VOICE)
    THEN IF "user_id" \notin e.has THEN Raise(e, "AttributeError") ELSE e
    ELSE e

\* mutant: an unknown type code is decoded with the fields of a new message
ReadType_AsNewMessage(e) ==
    IF e.raw = <<>> THEN Raise(e, "IndexError")
    ELSE IF e.raw[1] \in VkEventType
    THEN ListToAttr([e EXCEPT !.type = Some(e.raw[1])], Tail(e.raw),
                    EVENT_ATTRS_MAPPING(e.raw[1]))
    ELSE ListToAttr([e EXCEPT !.type = Some(e.raw[1])], Tail(e.raw),
                    EVENT_ATTRS_MAPPING(MESSAGE_NEW))

\* the try block of __init__: the type code and the positional fields; an
\* unknown code (ValueError, caught) is kept as it is, an empty raw raises
ReadType(e) ==
    IF e.raw = <<>> THEN Raise(e, "IndexError")
    ELSE IF e.raw[1] \in VkEventType
    THEN ListToAttr([e EXCEPT !.type = Some(e.raw[1])], Tail(e.raw),
                    EVENT_ATTRS_MAPPING(e.raw[1]))
    ELSE [e EXCEPT !.type = Some(e.raw[1])]

\* e, or f applied to it when no exception has left the constructor;
\* on: the condition under which __init__ makes the call
Then(e, on, f(_)) == IF e.err # "none" \/ ~on THEN e ELSE f(e)

SetDatetime(e) == SetAttr(e, "datetime", Some([utc |-> e.a["timestamp"][1]]))
ExtraToAttr(e) == DictToAttr(e, e.a["extra_values"][1])

\* MessageEvent(raw)
MessageEvent(raw) ==
    LET e1 == ReadType(NewEvent(raw))
        e2 == Then(e1, TruthyDict(e1.a["extra_values"]), ExtraToAttr)
        e3 == Then(e2, e2.type # None /\ e2.type[1] \in PARSE_PEER_ID_EVENTS, ParsePeerId)
        e4 == Then(e3, e3.type # None /\ e3.type[1] \in PARSE_MESSAGE_FLAGS_EVENTS,
                   ParseMessageFlags)
        e5 == Then(e4, TRUE, ParseByType)
    IN  Then(e5, Truthy(e5.a["timestamp"]), SetDatetime)

\* the keys of to_serializable() that are attributes the decoder may set
\* (attachments_ids, keyboard, fwd_messages and state keep their initial values)
SerializedAttrs ==
    {"attachments", "message_data", "message_id", "timestamp", "peer_id", "flags",
     "extra", "extra_values", "group_id", "text"}

\* to_serializable(): the dict literal has the key "type_id" twice, the later
\* value (self.type) is the one the dict keeps
ToSerializable(e) ==
    [raw |-> e.raw,
     from_user |-> e.from_user, from_chat |-> e.from_chat, from_group |-> e.from_group,
     from_me |-> e.from_me, to_me |-> e.to_me,
     a |-> [n \in SerializedAttrs |-> e.a[n]],
     type_id |-> e.type]

\* from_serializable(data): the constructor runs on data['raw'], the fields of
\* the dict overwrite the attributes (pad_id is not in the dict: None), and
\* VkEventType(event.type_id) raises ValueError for a value that is no member
FromSerializable(data) ==
    LET e0 == MessageEvent(data.raw)
        e1 == [e0 EXCEPT !.raw = data.raw,
                         !.from_user = data.from_user, !.from_chat = data.from_chat,
                         !.from_group = data.from_group,
                         !.from_me = data.from_me, !.to_me = data.to_me,
                         !.has = @ \cup SerializedAttrs \cup {"pad_id", "type_id"},
                         !.a = [n \in AttrNames |->
                                  IF n \in SerializedAttrs THEN data.a[n]
                                  ELSE IF n = "pad_id" THEN None
                                  ELSE IF n = "type_id" THEN data.type_id
                                  ELSE @[n]]]
    IN  IF e0.err # "none" THEN e0
        ELSE IF data.type_id # None /\ data.type_id[1] \in VkEventType
        THEN [e1 EXCEPT !.type = data.type_id]
        ELSE Raise(e1, "ValueError")

\* x or {} for an optional dict whose fields are all optional
OrEmpty(x, names) == IF x = None THEN [n \in names |-> None] ELSE x[1]

MessageKeys == {"id", "peer_id", "from_id", "text", "date", "conversation_message_id",
                "attachments"}

\* BotMessageEvent.__init__, the from_* flags
BotPeerFlags(e) ==
    IF e.a["peer_id"] = None THEN e
    ELSE IF e.a["peer_id"][1] >= 2000000000 THEN [e EXCEPT !.from_chat = TRUE]
    ELSE IF e.a["peer_id"][1] > 0 THEN [e EXCEPT !.from_user = TRUE]
    ELSE IF e.a["peer_id"][1] < 0 THEN [e EXCEPT !.from_group = TRUE]
    ELSE e

\* mutant: to_me is set only when the message is not the bot's own
BotDirection_Exclusive(e) ==
    IF e.a["group_id"] # None /\ e.a["from_id"] # None
          /\ e.a["from_id"][1] = -e.a["group_id"][1]
    THEN [e EXCEPT !.from_me = TRUE]
    ELSE [e EXCEPT !.to_me = TRUE]

\* BotMessageEvent.__init__, from_me and to_me
BotDirection(e) ==
    LET e1 == IF e.a["group_id"] # None /\ e.a["from_id"] # None
                    /\ e.a["from_id"][1] = -e.a["group_id"][1]
              THEN [e EXCEPT !.from_me = TRUE] ELSE e
    IN  [e1 EXCEPT !.to_me = TRUE]

\* the attachments_ids loop: "{type}{owner_id}_{id}" of every attachment that
\* has a type, a payload dict under that type, an owner_id and an id
RECURSIVE AttachmentIds(_)
AttachmentIds(atts) ==
    IF atts = <<>> THEN <<>>
    ELSE LET x == Head(atts)
             rest == AttachmentIds(Tail(atts))
         IN  IF x.type # None /\ x.payload # None
                  /\ x.payload[1].owner_id # None /\ x.payload[1].id # None
             THEN <<<<x.type[1], x.payload[1].owner_id[1], "_", x.payload[1].id[1]>>>> \o rest
             ELSE rest

\* BotMessageEvent(raw): the fields are read by name with dict.get, so a
\* missing one is None (event_id, v, client_info and fwd_messages are copied
\* the same way)
BotMessageEvent(raw) ==
    LET obj == OrEmpty(raw.object, {"message"})
        m == OrEmpty(obj.message, MessageKeys)
        atts == IF m.attachments = None THEN <<>> ELSE m.attachments[1]
        e0 == [NewEvent(raw) EXCEPT !.type = raw.type]
        e1 == SetAttr(e0, "group_id", raw.group_id)
        e2 == SetAttr(e1, "message", Some(m))
        e3 == SetAttr(e2, "message_id", m.id)
        e4 == SetAttr(e3, "peer_id", m.peer_id)
        e5 == SetAttr(e4, "conversation_message_id", m.conversation_message_id)
        e6 == SetAttr(e5, "from_id", m.from_id)
        e7 == SetAttr(e6, "text", IF m.text = None THEN Some(<<>>) ELSE m.text)
        e8 == SetAttr(e7, "timestamp", m.date)
        e9 == Then(e8, Truthy(e8.a["timestamp"]), SetDatetime)
        e10 == SetAttr(e9, "attachments", Some(atts))
        e11 == BotDirection(BotPeerFlags(e10))
    IN  SetAttr(e11, "attachments_ids", Some(AttachmentIds(atts)))

\* ------------------------------------------------ the decoders' inputs
PeerVals == {-5, 0, 7, CHAT_START_ID, CHAT_START_ID + 3}
FlagVals == {0, 1, 2, 3, 18, 1024, 65538, 131587}
TypeCodes == VkEventType \cup {0, 99}

PieceSet == {LT, GT, QUOT, AMP, BR, <<"a">>, <<"l", "t", ";">>, <<"&">>}
RECURSIVE TextsUpTo(_)
TextsUpTo(n) ==
    IF n = 0 THEN {<<>>}
    ELSE LET T == TextsUpTo(n - 1) IN T \cup {t \o q : t \in T, q \in PieceSet}

\* "a&lt;b&gt;c&quot;d&amp;e<br>f"
SampleText ==
    <<"a">> \o LT \o <<"b">> \o GT \o <<"c">> \o QUOT \o <<"d">> \o AMP \o <<"e">>
        \o BR \o <<"f">>

TextVals == TextsUpTo(MaxTextPieces) \cup {SampleText}

ExtraDicts ==
    {[n \in {} |-> None],
     [n \in {"from"} |-> <<"4", "2">>],
     [n \in {"attach1", "attach1_type"} |->
         IF n = "attach1" THEN <<"1", "_", "2">> ELSE <<"p", "h", "o", "t", "o">>]}
ValuesDicts ==
    {[n \in {"peer_id", "sound", "disabled_until"} |-> IF n = "peer_id" THEN p ELSE 0] :
        p \in PeerVals}
    \cup {[n \in {"sound", "disabled_until"} |-> 0]}

\* the values drawn for the field named n of a raw array
FieldVals(n) ==
    CASE n = "peer_id" -> PeerVals
      [] n = "flags" -> FlagVals
      [] n = "timestamp" -> {0, 1000}
      [] n = "text" -> {<<>>, <<"a">> \o BR \o AMP \o <<"l", "t", ";">>}
      [] n = "extra_values" -> ExtraDicts
      [] n = "attachments" -> {[x \in {} |-> None]}
      [] n = "user_id" -> {-7, 7}
      [] n = "extra" -> {0, 7, 263, 200}
      [] n = "type_id" -> {1, 3, 5, 6, 42}
      [] n = "values" -> ValuesDicts
      [] OTHER -> {1}

\* the field lists of length n drawn for the names attrs (a field beyond the
\* names is 0)
RECURSIVE Fields(_, _)
Fields(attrs, n) ==
    IF n = 0 THEN {<<>>}
    ELSE {Append(q, v) : q \in Fields(attrs, n - 1),
                         v \in IF n <= Len(attrs) THEN FieldVals(attrs[n]) ELSE {0}}

\* the names whose values fill a drawn raw array of type code ty (an unknown
\* code comes with the first fields of a message)
AttrsOf(ty) ==
    IF ty \in VkEventType THEN EVENT_ATTRS_MAPPING(ty)
    ELSE SubSeq(EVENT_ATTRS_MAPPING(MESSAGE_NEW), 1, 5)

\* a new or edited message whose text is drawn from TextVals
TextRaw(ty, text) == <<ty, 1, 2, 7, 1000, text>>

\* the callback object of a message
CallbackRaw(group_id, hasObject, m) ==
    [type |-> Some("message_new"), group_id |-> group_id,
     object |-> IF hasObject THEN Some([message |-> m]) ELSE None]
CallbackMessage(p, from_id, atts) ==
    [id |-> Some(1), peer_id |-> p, from_id |-> from_id, text |-> Some(<<"a">>),
     date |-> Some(1000), conversation_message_id |-> Some(3), attachments |-> atts]
AttachmentLists ==
    {None,
     Some(<<[type |-> Some("photo"), payload |-> Some([owner_id |-> Some(1), id |-> Some(2)])],
            [type |-> Some("doc"), payload |-> None]>>)}

\* ------------------------------------------------------ decoding runs
Undecoded(raw, obj) == [raw |-> raw, obj |-> obj, ev |-> None, bev |-> None, rt |-> None]

\* the updates a run starts with: a raw array, a raw callback object, or the
\* two forms of one new message
InitDecode ==
    /\ kind = "user" /\ pts = None /\ ts = None /\ key = None /\ base_url = None
    /\ task = [t \in Tasks |-> IdleTask]
    /\ updSent = 0 /\ received = <<>> /\ delivered = <<>> /\ dropped = {}
    /\ cnt = InitCnt
    /\ att = NoResolution
    /\ \/ dec = Undecoded(Some(<<>>), None)
       \/ \E ty \in TypeCodes :
             \E n \in 0..(Len(AttrsOf(ty)) + MaxExtraFields) :
                \E q \in Fields(AttrsOf(ty), n) :
                   dec = Undecoded(Some(<<ty>> \o q), None)
       \/ \E ty \in {MESSAGE_NEW, MESSAGE_EDIT}, text \in TextVals :
             dec = Undecoded(Some(TextRaw(ty, text)), None)
       \/ \E p \in PeerVals, f \in {0, 2}, g \in {None, Some(5)},
             fr \in {None, Some(-5), Some(7)}, atts \in AttachmentLists :
             dec = Undecoded(Some(<<MESSAGE_NEW, 1, f, p, 1000, <<"a">>>>),
                             Some(CallbackRaw(g, TRUE,
                                              Some(CallbackMessage(Some(p), fr, atts)))))
       \/ \E g \in {None, Some(5)}, hasObject \in BOOLEAN,
             m \in {None, Some(CallbackMessage(None, Some(-5), None))} :
             dec = Undecoded(None, Some(CallbackRaw(g, hasObject, m)))

\* MessageEvent(raw) is constructed
DecodeArray ==
    /\ dec.raw # None /\ dec.ev = None
    /\ dec' = [dec EXCEPT !.ev = Some(MessageEvent(dec.raw[1]))]
    /\ UNCHANGED <<kind, pts, ts, key, base_url, task, updSent, received, delivered,
                   dropped, cnt, att>>

\* BotMessageEvent(raw) is constructed
DecodeObject ==
    /\ dec.obj # None /\ dec.bev = None
    /\ dec' = [dec EXCEPT !.bev = Some(BotMessageEvent(dec.obj[1]))]
    /\ UNCHANGED <<kind, pts, ts, key, base_url, task, updSent, received, delivered,
                   dropped, cnt, att>>

\* MessageEvent.from_serializable(ev.to_serializable())
RoundTrip ==
    /\ dec.ev # None /\ dec.ev[1].err = "none" /\ dec.rt = None
    /\ dec' = [dec EXCEPT !.rt = Some(FromSerializable(ToSerializable(dec.ev[1])))]
    /\ UNCHANGED <<kind, pts, ts, key, base_url, task, updSent, received, delivered,
                   dropped, cnt, att>>

NextDecode == DecodeArray \/ DecodeObject \/ RoundTrip

SpecDecode == InitDecode /\ [][NextDecode]_vars

\* ----------------------------------------------------- claims C14 .. C20
\* the event made of the raw array, once constructed without an exception
Decoded == dec.ev # None /\ dec.ev[1].err = "none"
Ev == dec.ev[1]
\* the raw array's element for the field named n, None when raw is too short
RawField(n) ==
    LET raw == dec.raw[1]
        attrs == IF raw # <<>> /\ raw[1] \in VkEventType
                 THEN EVENT_ATTRS_MAPPING(raw[1]) ELSE <<>>
        at == {i \in 1..Len(attrs) : attrs[i] = n /\ i + 1 <= Len(raw)}
    IN  IF at = {} THEN None ELSE Some(raw[1 + CHOOSE i \in at : TRUE])

\* the peer id the raw array carries: a positional field, or the peer_id key
\* of the values dict of a notification-settings update
RawPeer ==
    IF dec.raw[1] # <<>> /\ dec.raw[1][1] = NOTIFICATION_SETTINGS_UPDATE
    THEN IF RawField("values") # None /\ "peer_id" \in DOMAIN RawField("values")[1]
         THEN Some(RawField("values")[1]["peer_id"]) ELSE None
    ELSE RawField("peer_id")

\* C14: an array event that carries a peer id p is from_group with group_id
\* |p| when p < 0, from_chat with chat_id p - CHAT_START_ID when
\* p > CHAT_START_ID, from_user with user_id p otherwise (0 and CHAT_START_ID
\* included); exactly one of the three flags is set.
C14_PeerClassification ==
    (Decoded /\ RawPeer # None) =>
        LET p == RawPeer[1]
            e == Ev
        IN  /\ p < 0 =>
                  /\ e.from_group /\ ~e.from_chat /\ ~e.from_user
                  /\ e.a["group_id"] = Some(-p)
            /\ p > 2000000000 =>
                  /\ e.from_chat /\ ~e.from_group /\ ~e.from_user
                  /\ "chat_id" \in e.has /\ e.a["chat_id"] = Some(p - 2000000000)
            /\ (p >= 0 /\ p <= 2000000000) =>
                  /\ e.from_user /\ ~e.from_chat /\ ~e.from_group
                  /\ "user_id" \in e.has /\ e.a["user_id"] = Some(p)

\* a chat update whose peer id is exactly the threshold: a user
C14_Witness ==
    /\ Decoded /\ Ev.type = Some(CHAT_UPDATE)
    /\ RawPeer = Some(2000000000)
    /\ Ev.from_user /\ Ev.a["user_id"] = Some(2000000000)

\* the sum of a set of distinct powers of two: their bitwise OR
RECURSIVE SumOf(_)
SumOf(S) == IF S = {} THEN 0 ELSE LET x == CHOOSE y \in S : TRUE IN x + SumOf(S \ {x})
\* bit x (a power of two) of f is set
BitSet(f, x) == (f \div x) % 2 = 1

\* C15: message_flags of a flags-replace or new-message event holds exactly
\* the members of VkMessageFlag whose bit is set in flags, and their OR is
\* flags restricted to the bits 0..9, 16 and 17; peer_flags of a
\* peer-flags-replace event holds exactly the members of VkPeerFlag whose bit
\* is set, and their OR is flags restricted to the bits 0 and 1.
C15_FlagDecomposition ==
    (Decoded /\ RawField("flags") # None) =>
        LET f == RawField("flags")[1]
            e == Ev
        IN  /\ e.type \in {Some(MESSAGE_FLAGS_REPLACE), Some(MESSAGE_NEW)} =>
                  /\ "message_flags" \in e.has
                  /\ e.a["message_flags"][1] =
                        {x \in {1, 2, 4, 8, 16, 32, 64, 128, 256, 512, 65536, 131072} :
                            BitSet(f, x)}
                  /\ SumOf(e.a["message_flags"][1]) =
                        (f % 1024) + ((f \div 65536) % 4) * 65536
            /\ e.type = Some(PEER_FLAGS_REPLACE) =>
                  /\ "peer_flags" \in e.has
                  /\ e.a["peer_flags"][1] = {x \in {1, 2} : BitSet(f, x)}
                  /\ SumOf(e.a["peer_flags"][1]) = f % 4

\* flags 131587 = DELETED_ALL | MEDIA | OUTBOX | UNREAD of a new message
C15_Witness ==
    /\ Decoded /\ Ev.type = Some(MESSAGE_NEW)
    /\ RawField("flags") = Some(131587)
    /\ Ev.a["message_flags"] = Some({1, 2, 512, 131072})

\* the event made of the raw callback object
BotDecoded == dec.bev # None
Bev == dec.bev[1]

\* C16 as stated: of every new-message event, from the array or from the
\* callback object, exactly one of from_me and to_me is set; for an array
\* event from_me is set exactly when the OUTBOX bit of flags is set.
C16_DirectionExclusive ==
    /\ (Decoded /\ Ev.type = Some(MESSAGE_NEW)) =>
          /\ Ev.from_me # Ev.to_me
          /\ Ev.from_me <=> BitSet(RawField("flags")[1], 2)
    /\ (BotDecoded /\ Bev.type = Some("message_new")) => Bev.from_me # Bev.to_me

\* C16 as amended: of a new-message array event exactly one of from_me and
\* to_me is set, from_me exactly when the OUTBOX bit of flags is set; of a
\* callback event to_me is always set, and from_me is set as well exactly
\* when group_id and from_id are present and from_id = -group_id.
C16_DirectionFlags ==
    /\ (Decoded /\ Ev.type = Some(MESSAGE_NEW)) =>
          /\ Ev.from_me # Ev.to_me
          /\ Ev.from_me <=> BitSet(RawField("flags")[1], 2)
    /\ (BotDecoded /\ Bev.type = Some("message_new")) =>
          LET raw == dec.obj[1]
              from_id == IF raw.object = None \/ raw.object[1].message = None THEN None
                         ELSE raw.object[1].message[1].from_id
          IN  /\ Bev.to_me
              /\ Bev.from_me <=> (/\ raw.group_id # None /\ from_id # None
                                  /\ from_id[1] + raw.group_id[1] = 0)

\* the two forms of a message the group itself sent: the array event is
\* from_me alone, the callback event from_me and to_me
C16_Witness ==
    /\ Decoded /\ Ev.type = Some(MESSAGE_NEW) /\ Ev.from_me /\ ~Ev.to_me
    /\ BotDecoded /\ Bev.from_me /\ Bev.to_me
    /\ dec.obj[1].group_id = Some(5)

\* C17: constructing the event of a raw array that has a type code raises
\* nothing, whatever the type code and however few fields follow it, and the
\* event keeps the raw array.
C17_DecodeNeverRaises ==
    (dec.ev # None /\ dec.raw[1] # <<>>) => (Ev.err = "none" /\ Ev.raw = dec.raw[1])

\* C18: the event of an array whose first element is no known type code has
\* that element as its type and the array as its raw; no positional field is
\* assigned (the attributes are those of __init__, still None), none of
\* from_user, from_chat, from_group, from_me, to_me is set and no flag set or
\* derived id exists.
C18_UnknownTypeKeptRaw ==
    (dec.ev # None /\ dec.raw[1] # <<>> /\ dec.raw[1][1] \notin VkEventType) =>
        /\ Ev.err = "none"
        /\ Ev.type = Some(dec.raw[1][1])
        /\ Ev.raw = dec.raw[1]
        /\ ~Ev.from_user /\ ~Ev.from_chat /\ ~Ev.from_group /\ ~Ev.from_me /\ ~Ev.to_me
        /\ Ev.has = {"message_id", "timestamp", "peer_id", "flags", "extra",
                     "extra_values", "type_id", "group_id", "text", "pad_id",
                     "message_data", "attachments"}
        /\ \A n \in Ev.has \ {"attachments"} : Ev.a[n] = None

\* type code 99 followed by the five fields of a message
C18_Witness ==
    /\ dec.ev # None /\ Ev.type = Some(99)
    /\ Len(dec.raw[1]) = 6
    /\ dec.raw[1][4] = 2000000003

\* the derived id of an event: user_id, chat_id or group_id by its flag
DerivedId(e) ==
    IF e.from_user THEN IF "user_id" \in e.has THEN e.a["user_id"] ELSE None
    ELSE IF e.from_chat THEN IF "chat_id" \in e.has THEN e.a["chat_id"] ELSE None
    ELSE IF e.from_group THEN e.a["group_id"]
    ELSE None

\* C19: the events the two decoders make of the same peer id have the same
\* from_user, from_chat and from_group flags and the same derived id.
C19_DecodersAgreeOnPeer ==
    (Decoded /\ BotDecoded /\ RawPeer # None /\ Bev.a["peer_id"] = RawPeer) =>
        /\ Bev.from_user = Ev.from_user
        /\ Bev.from_chat = Ev.from_chat
        /\ Bev.from_group = Ev.from_group
        /\ DerivedId(Bev) = DerivedId(Ev)

\* the strings of four entities and their characters
Entities == <<LT, GT, QUOT, AMP>>
EntityChars == <<"<", ">", "\"", "&">>

\* s read once from the left: line-break markup becomes a newline, an entity
\* its character, any other character stays
RECURSIVE UnescapedOnce(_)
UnescapedOnce(s) ==
    IF s = <<>> THEN <<>>
    ELSE IF StartsWith(s, BR) THEN NL \o UnescapedOnce(Drop(s, Len(BR)))
    ELSE IF \E i \in 1..4 : StartsWith(s, Entities[i])
    THEN LET i == CHOOSE j \in 1..4 : StartsWith(s, Entities[j])
         IN  <<EntityChars[i]>> \o UnescapedOnce(Drop(s, Len(Entities[i])))
    ELSE <<Head(s)>> \o UnescapedOnce(Tail(s))

\* how many times pat starts in s
Occurrences(s, pat) == Cardinality({i \in 0..Len(s) : StartsWith(Drop(s, i), pat)})

\* C20: message of a new-message or edit-message array event is the raw text
\* with every <br> turned into a newline and every &lt; &gt; &quot; &amp;
\* unescaped one level (&amp;lt; gives &lt;, and a&lt;b&gt;c&quot;d&amp;e<br>f
\* gives a<b>c"d&e, a newline, f); the text attribute has no <br> left and
\* holds every entity the raw text held.
C20_MessageUnescapedOnce ==
    (Decoded /\ Ev.type \in {Some(MESSAGE_NEW), Some(MESSAGE_EDIT)}) =>
        LET t == RawField("text")[1]
        IN  /\ Ev.a["message"] = Some(UnescapedOnce(t))
            /\ Occurrences(Ev.a["text"][1], BR) = 0
            /\ Len(Ev.a["text"][1]) = Len(t) - 3 * Occurrences(t, BR)
            /\ \A i \in 1..4 :
                  Occurrences(Ev.a["text"][1], Entities[i]) = Occurrences(t, Entities[i])
            /\ t = SampleText =>
                  Ev.a["message"] =
                      Some(<<"a", "<", "b", ">", "c", "\"", "d", "&", "e", "\n", "f">>)

\* "&amp;lt;" gives "&lt;", the text keeps "&amp;lt;"
C20_Witness ==
    /\ Decoded /\ Ev.type = Some(MESSAGE_EDIT)
    /\ RawField("text") = Some(AMP \o <<"l", "t", ";">>)
    /\ Ev.a["message"] = Some(LT)
    /\ Ev.a["text"] = Some(AMP \o <<"l", "t", ";">>)

\* ------------------------------------------- MessageEvent.normalized_attachments
\* Python truthiness of an optional string: None and '' are falsy
TruthyStr(u) == u # None /\ u[1] # ""

\* d.get(k, default) for an optional field
GetOr(x, default) == IF x = None THEN default ELSE x[1]

RECURSIVE UrlSizes_All(_)
\* mutant: every size is kept
UrlSizes_All(sz) ==
    IF sz = <<>> THEN <<>>
    ELSE <<[type |-> Head(sz).type, url |-> Head(sz).url]>> \o UrlSizes_All(Tail(sz))

\* the sizes that carry a url, each cut down to its type and url
RECURSIVE UrlSizes(_)
UrlSizes(sz) ==
    IF sz = <<>> THEN <<>>
    ELSE IF TruthyStr(Head(sz).url)
    THEN <<[type |-> Head(sz).type, url |-> Head(sz).url]>> \o UrlSizes(Tail(sz))
    ELSE UrlSizes(Tail(sz))

\* the normalized attachments
PhotoRef(sz) == [type |-> "photo", photo |-> [sizes |-> sz]]
DocRef(d) ==
    [type |-> "doc",
     doc |-> [title |-> GetOr(d.title, ""), ext |-> GetOr(d.ext, ""),
              url |-> GetOr(d.url, ""), date |-> GetOr(d.date, 0)]]

\* {} as a doc: no field present
NoFields == [title |-> None, ext |-> None, url |-> None, date |-> None]

RECURSIVE Map_KeepsAnyPhoto(_)
\* mutant: a photo is kept whether or not one of its sizes carries a url
Map_KeepsAnyPhoto(atts) ==
    IF atts = <<>> THEN <<>>
    ELSE LET a == Head(atts)
             sz == UrlSizes(GetOr(GetOr(a.photo, [sizes |-> None]).sizes, <<>>))
         IN  (IF a.type = Some("photo") THEN <<PhotoRef(sz)>>
              ELSE IF a.type = Some("doc") THEN <<DocRef(GetOr(a.doc, NoFields))>>
              ELSE <<>>)
             \o Map_KeepsAnyPhoto(Tail(atts))

\* _map: a photo with a url-bearing size and every doc are kept, in order
RECURSIVE Map(_)
Map(atts) ==
    IF atts = <<>> THEN <<>>
    ELSE LET a == Head(atts)
             sz == UrlSizes(GetOr(GetOr(a.photo, [sizes |-> None]).sizes, <<>>))
         IN  (IF a.type = Some("photo") THEN (IF sz # <<>> THEN <<PhotoRef(sz)>> ELSE <<>>)
              ELSE IF a.type = Some("doc") THEN <<DocRef(GetOr(a.doc, NoFields))>>
              ELSE <<>>)
             \o Map(Tail(atts))

\* the tail of _from_messages_getById: the attachments of the first item of r
Items(r) ==
    LET items == GetOr(GetOr(r, [items |-> None]).items, <<>>)
    IN  IF items = <<>> THEN <<>> ELSE GetOr(items[1].attachments, <<>>)

\* token.split("_", 1): None when the unpacking into two names fails
Split(token) ==
    IF \E k \in 1..Len(token) : token[k] = "_"
    THEN LET k == CHOOSE j \in 1..Len(token) :
                      token[j] = "_" /\ \A m \in 1..(j - 1) : token[m] # "_"
         IN  Some(<<SubSeq(token, 1, k - 1), SubSeq(token, k + 1, Len(token))>>)
    ELSE None

\* the keys f"attach{i}" and f"attach{i}_type"
AttachKey(i) == <<"attach", i>>
AttachTypeKey(i) == <<"attach", i, "_type">>

\* the remote calls
BulkCall(self, scoped) ==
    [method |-> "messages.getById", id |-> self.message_id,
     group_id |-> IF scoped THEN Some(self.group_id) ELSE None]
ItemCall(tp, oid, iid) ==
    [method |-> IF tp = "photo" THEN "photos.getById" ELSE "docs.getById",
     id |-> oid \o <<"_">> \o iid, group_id |-> None]

\* mutant: the loop ends at the first index without a lookup
Inline_StopsOnSkip(st) ==
    LET ex == GetOr(st.self[1].extra_values, <<>>)
        i == st.i
    IN  IF ~(AttachKey(i) \in DOMAIN ex /\ AttachTypeKey(i) \in DOMAIN ex)
        THEN [st EXCEPT !.pc = "done", !.ret = Some(st.norm)]
        ELSE LET parts == Split(ex[AttachKey(i)])
                 tp == ex[AttachTypeKey(i)]
             IN  IF parts = None \/ tp \notin {"photo", "doc"}
                 THEN [st EXCEPT !.pc = "done", !.ret = Some(st.norm)]
                 ELSE [st EXCEPT !.pc = "item",
                                 !.calls = Append(@, ItemCall(tp, parts[1][1], parts[1][2]))]

\* the while loop of the inline tier from its test for index st.i up to the
\* next awaited lookup or the return
RECURSIVE Inline(_)
Inline(st) ==
    LET ex == GetOr(st.self[1].extra_values, <<>>)
        i == st.i
    IN  IF ~(AttachKey(i) \in DOMAIN ex /\ AttachTypeKey(i) \in DOMAIN ex)
        THEN [st EXCEPT !.pc = "done", !.ret = Some(st.norm)]
        ELSE LET parts == Split(ex[AttachKey(i)])
                 tp == ex[AttachTypeKey(i)]
             IN  IF parts = None \/ tp \notin {"photo", "doc"}
                 THEN Inline([st EXCEPT !.i = i + 1])
                 ELSE [st EXCEPT !.pc = "item",
                                 !.calls = Append(@, ItemCall(tp, parts[1][1], parts[1][2]))]

\* mutant: the inline tier runs after the bulk tier whatever it found
AfterBulk_AlwaysInline(st, r) ==
    LET got == Map(Items(r))
        st1 == [st EXCEPT !.got = Some(got)]
    IN  Inline([st1 EXCEPT !.norm = got])

\* normalized_attachments after _from_messages_getById returned Items(r)
AfterBulk(st, r) ==
    LET got == Map(Items(r))
        st1 == [st EXCEPT !.got = Some(got)]
    IN  IF got # <<>> THEN [st1 EXCEPT !.pc = "done", !.ret = Some(got)]
        ELSE Inline(st1)

\* what the answer a of photos.getById / docs.getById appends to norm
Resolved(tp, a) ==
    IF a.raised \/ a.body = None \/ a.body[1] = <<>> THEN <<>>
    ELSE IF tp = "photo"
    THEN IF a.body[1][1].sizes = None THEN <<>>
         ELSE LET sz == UrlSizes(a.body[1][1].sizes[1])
              IN  IF sz # <<>> THEN <<PhotoRef(sz)>> ELSE <<>>
    ELSE <<DocRef(a.body[1][1])>>

\* ------------------------------------------------- the resolver's inputs
SizeVals ==
    {[type |-> Some("m"), url |-> Some("u1")],
     [type |-> Some("x"), url |-> Some("")],
     [type |-> None, url |-> None]}
SizeLists ==
    {<<>>} \cup {<<s>> : s \in SizeVals}
    \cup {<<[type |-> Some("m"), url |-> Some("u1")], [type |-> Some("x"), url |-> Some("")]>>}

DocVals ==
    {[title |-> Some("t"), ext |-> Some("pdf"), url |-> Some("u2"), date |-> Some(1000)],
     NoFields}

\* the attachments of a message as messages.getById gives them
RawAttachments ==
    {[type |-> Some("photo"), photo |-> Some([sizes |-> Some(sz)]), doc |-> None] :
        sz \in SizeLists}
    \cup {[type |-> Some("photo"), photo |-> None, doc |-> None]}
    \cup {[type |-> Some("doc"), photo |-> None, doc |-> Some(d)] : d \in DocVals}
    \cup {[type |-> Some("doc"), photo |-> None, doc |-> None],
          [type |-> Some("audio"), photo |-> None, doc |-> None]}

\* sequences over S of length at most n
SeqUpTo(S, n) == UNION {[1..m -> S] : m \in 0..n}

Raised == [raised |-> TRUE, body |-> None]
Answer(b) == [raised |-> FALSE, body |-> b]

\* what messages.getById can answer
BulkAnswers ==
    {Raised, Answer(None), Answer(Some([items |-> None])), Answer(Some([items |-> Some(<<>>)])),
     Answer(Some([items |-> Some(<<[attachments |-> None]>>)]))}
    \cup {Answer(Some([items |-> Some(<<[attachments |-> Some(atts)]>>)])) :
             atts \in SeqUpTo(RawAttachments, MaxBulk) \ {<<>>}}

\* what photos.getById / docs.getById can answer
ItemAnswers(tp) ==
    {Raised, Answer(None), Answer(Some(<<>>))}
    \cup (IF tp = "photo"
          THEN {Answer(Some(<<[sizes |-> None]>>))}
               \cup {Answer(Some(<<[sizes |-> Some(sz)]>>)) : sz \in SizeLists}
          ELSE {Answer(Some(<<d>>)) : d \in DocVals})

\* attachN / attachN_type of one index: both, the token alone, or neither
GoodToken == <<"7", "_", "4">>
BadToken == <<"7", "4">>
PairVals ==
    {[token |-> Some(GoodToken), tp |-> Some("photo")],
     [token |-> Some(GoodToken), tp |-> Some("doc")],
     [token |-> Some(GoodToken), tp |-> Some("audio")],
     [token |-> Some(BadToken), tp |-> Some("photo")],
     [token |-> Some(GoodToken), tp |-> None],
     [token |-> None, tp |-> None]}

\* the extra_values dict with the pairs q[1], q[2], ...
ExtraOf(q) ==
    LET keys == {AttachKey(n) : n \in {m \in 1..Len(q) : q[m].token # None}}
                \cup {AttachTypeKey(n) : n \in {m \in 1..Len(q) : q[m].tp # None}}
    IN  [k \in keys |-> IF Len(k) = 2 THEN q[k[2]].token[1] ELSE q[k[2]].tp[1]]

\* the events normalized_attachments is called on
ResolverEvents ==
    {[message_id |-> Some(1), group_id |-> g, extra_values |-> x] :
        g \in {None, Some(5)},
        x \in {None} \cup {Some(ExtraOf(q)) : q \in [1..MaxAttach -> PairVals]}}

\* ------------------------------------------------------ resolving runs
sessionVars == <<kind, pts, ts, key, base_url, task, updSent, received, delivered, dropped, cnt>>

InitResolve ==
    /\ kind = "user" /\ pts = None /\ ts = None /\ key = None /\ base_url = None
    /\ task = [t \in Tasks |-> IdleTask]
    /\ updSent = 0 /\ received = <<>> /\ delivered = <<>> /\ dropped = {}
    /\ cnt = InitCnt
    /\ dec = NoDecoding
    /\ \E e \in ResolverEvents : att = [NoResolution EXCEPT !.self = Some(e)]

\* await event.normalized_attachments(api): up to the first messages.getById
CallNormalized ==
    /\ att.self # None /\ att.pc = "idle"
    /\ att' = [att EXCEPT !.pc = "bulk1",
                          !.calls = <<BulkCall(att.self[1], TRUE)>>]
    /\ UNCHANGED <<sessionVars, dec>>

\* messages.getById answers a: an exception of the scoped call is followed by
\* the call without group_id, an exception of that one by an empty list
MessagesGetById(a) ==
    /\ att.pc \in {"bulk1", "bulk2"}
    /\ a \in BulkAnswers
    /\ LET st == [att EXCEPT !.bulk = Append(@, a)]
       IN  att' = IF a.raised
                  THEN IF att.pc = "bulk1"
                       THEN [st EXCEPT !.pc = "bulk2",
                                       !.calls = Append(@, BulkCall(att.self[1], FALSE))]
                       ELSE AfterBulk(st, None)
                  ELSE AfterBulk(st, a.body)
    /\ UNCHANGED <<sessionVars, dec>>

BulkLookup == \E a \in BulkAnswers : MessagesGetById(a)

\* photos.getById / docs.getById for index i answers a
ItemGetById(a) ==
    /\ att.pc = "item"
    /\ LET tp == att.self[1].extra_values[1][AttachTypeKey(att.i)]
       IN  /\ a \in ItemAnswers(tp)
           /\ att' = Inline([att EXCEPT !.norm = @ \o Resolved(tp, a),
                                        !.answers = Append(@, [i |-> att.i, a |-> a]),
                                        !.i = @ + 1])
    /\ UNCHANGED <<sessionVars, dec>>

ItemLookup ==
    \E a \in ItemAnswers("photo") \cup ItemAnswers("doc") : ItemGetById(a)

NextResolve == CallNormalized \/ BulkLookup \/ ItemLookup

SpecResolve == InitResolve /\ [][NextResolve]_vars

\* ----------------------------------------------------- claims C21 .. C30
\* the event from_serializable returned, or the exception it raised
RoundTripped == dec.rt # None
Rt == dec.rt[1]

\* C21: for every event e the array decoder produced, of a known or an
\* unknown type code, from_serializable(to_serializable(e)) raises nothing
\* and returns an event equal to e in type, raw, from_user / from_chat /
\* from_group, from_me / to_me, message_id, peer_id, flags, text and type_id.
C21_RoundTrip ==
    RoundTripped =>
        /\ Rt.err = "none"
        /\ Rt.type = Ev.type
        /\ Rt.raw = Ev.raw
        /\ <<Rt.from_user, Rt.from_chat, Rt.from_group>> =
              <<Ev.from_user, Ev.from_chat, Ev.from_group>>
        /\ <<Rt.from_me, Rt.to_me>> = <<Ev.from_me, Ev.to_me>>
        /\ \A n \in {"message_id", "peer_id", "flags", "text", "type_id"} :
              Rt.a[n] = Ev.a[n]

\* the per-item calls among the remote calls issued
ItemCalls == SelectSeq(att.calls, LAMBDA c : c.method # "messages.getById")

\* C22: when the bulk tier made a non-empty list that list is returned and no
\* photos.getById / docs.getById call is ever issued; such a call is issued
\* only after the bulk tier made an empty list.
C22_BulkResultEndsResolution ==
    /\ (att.got # None /\ att.got[1] # <<>>) =>
          /\ att.pc = "done"
          /\ att.ret = att.got
          /\ ItemCalls = <<>>
    /\ ItemCalls # <<>> => att.got = Some(<<>>)

\* a doc and a photo came with the message; attach1 is left unresolved
C22_Witness ==
    /\ att.pc = "done"
    /\ Len(att.ret[1]) = 2 /\ att.ret[1][1].type = "doc" /\ att.ret[1][2].type = "photo"
    /\ att.self[1].extra_values # None
    /\ <<"attach", 1>> \in DOMAIN att.self[1].extra_values[1]
    /\ <<"attach", 1, "_type">> \in DOMAIN att.self[1].extra_values[1]
    /\ Len(att.calls) = 1

\* the answer is one message whose only attachment is a photo none of whose
\* sizes carries a url
OnlyUrlLessPhoto(a) ==
    /\ ~a.raised /\ a.body # None /\ a.body[1].items # None
    /\ Len(a.body[1].items[1]) = 1
    /\ a.body[1].items[1][1].attachments # None
    /\ LET atts == a.body[1].items[1][1].attachments[1]
       IN  /\ Len(atts) = 1 /\ atts[1].type = Some("photo")
           /\ \/ atts[1].photo = None
              \/ atts[1].photo[1].sizes = None
              \/ \A k \in 1..Len(atts[1].photo[1].sizes[1]) :
                    atts[1].photo[1].sizes[1][k].url \in {None, Some("")}
BothBulkRaised == Len(att.bulk) = 2 /\ att.bulk[1].raised /\ att.bulk[2].raised

\* the event has both attachN and attachN_type
HasPair(n) ==
    /\ att.self[1].extra_values # None
    /\ <<"attach", n>> \in DOMAIN att.self[1].extra_values[1]
    /\ <<"attach", n, "_type">> \in DOMAIN att.self[1].extra_values[1]

\* C23: when messages.getById answers a message whose only attachment is a
\* photo without a url-bearing size, or when it raises with and without the
\* group scope, the bulk tier makes an empty list and the inline tier runs:
\* an event without the attach1 / attach1_type pair gets an empty list and no
\* error, an event with a well-formed photo or doc token at index 1 gets the
\* per-item lookup of that token.
C23_EmptyBulkFallsThrough ==
    (att.got # None /\ att.bulk # <<>>
        /\ (OnlyUrlLessPhoto(att.bulk[Len(att.bulk)]) \/ BothBulkRaised)) =>
        /\ att.got = Some(<<>>)
        /\ ~HasPair(1) => /\ att.pc = "done" /\ att.ret = Some(<<>>)
                          /\ ItemCalls = <<>>
        /\ (HasPair(1)
               /\ att.self[1].extra_values[1][<<"attach", 1>>] = <<"7", "_", "4">>
               /\ att.self[1].extra_values[1][<<"attach", 1, "_type">>] \in {"photo", "doc"}) =>
              /\ ItemCalls # <<>>
              /\ ItemCalls[1].id = <<"7", "_", "4">>
              /\ ItemCalls[1].method =
                    (IF att.self[1].extra_values[1][<<"attach", 1, "_type">>] = "photo"
                     THEN "photos.getById" ELSE "docs.getById")

\* a url-less photo from the bulk lookup, no inline token: an empty list
C23_Witness ==
    /\ att.pc = "done" /\ att.ret = Some(<<>>)
    /\ Len(att.bulk) = 1 /\ OnlyUrlLessPhoto(att.bulk[1])
    /\ att.bulk[1].body[1].items[1][1].attachments[1][1].photo # None
    /\ att.bulk[1].body[1].items[1][1].attachments[1][1].photo[1].sizes =
          Some(<<[type |-> Some("x"), url |-> Some("")]>>)
    /\ ~HasPair(1)

\* the type the event gives for index n
TypeOf(n) == att.self[1].extra_values[1][<<"attach", n, "_type">>]
\* the indices the loop reaches: the leading run of complete pairs
Reached == {n \in 1..MaxAttach : \A m \in 1..n : HasPair(m)}
\* the reached indices with a token of two parts and a type to look up
LookedUp ==
    {n \in Reached :
        /\ \E k \in 1..Len(att.self[1].extra_values[1][<<"attach", n>>]) :
               att.self[1].extra_values[1][<<"attach", n>>][k] = "_"
        /\ TypeOf(n) \in {"photo", "doc"}}
\* the answer x.a for index x.i resolves to an attachment
Success(x) ==
    /\ ~x.a.raised /\ x.a.body # None /\ x.a.body[1] # <<>>
    /\ TypeOf(x.i) = "photo" =>
          /\ x.a.body[1][1].sizes # None
          /\ \E k \in 1..Len(x.a.body[1][1].sizes[1]) :
                x.a.body[1][1].sizes[1][k].url \notin {None, Some("")}

\* C24: the inline tier takes the indices 1, 2, ... one by one as long as
\* attachN and attachN_type both exist and stops at the first index that
\* lacks one of them; it looks up each index whose token has two parts and
\* whose type is photo or doc, in increasing order; an exception, an empty
\* answer or a malformed token at one index adds nothing and does not keep
\* the next index from being processed; the list returned holds the
\* attachments resolved, in increasing order of their indices.
C24_InlineTier ==
    (att.got = Some(<<>>)) =>
        /\ Len(ItemCalls) = Len(att.answers) + (IF att.pc = "item" THEN 1 ELSE 0)
        /\ \A k \in 1..Len(att.answers) :
              /\ att.answers[k].i \in LookedUp
              /\ k > 1 => att.answers[k - 1].i < att.answers[k].i
              /\ ItemCalls[k].id = att.self[1].extra_values[1][<<"attach", att.answers[k].i>>]
        /\ att.pc = "item" => att.i \in LookedUp
        /\ att.pc = "done" =>
              LET ok == SelectSeq(att.answers, Success)
              IN  /\ {att.answers[k].i : k \in 1..Len(att.answers)} = LookedUp
                  /\ Len(att.ret[1]) = Len(ok)
                  /\ \A k \in 1..Len(ok) : att.ret[1][k].type = TypeOf(ok[k].i)

\* photos.getById raised for attach1, docs.getById resolved attach2
C24_Witness ==
    /\ att.pc = "done" /\ att.got = Some(<<>>)
    /\ Len(att.answers) = 2
    /\ att.answers[1].a.raised /\ TypeOf(1) = "photo"
    /\ TypeOf(2) = "doc"
    /\ Len(att.ret[1]) = 1 /\ att.ret[1][1].type = "doc"
    /\ att.ret[1][1].doc.title = "t"

\* C25: every element normalized_attachments returns, from the bulk tier or
\* from the inline tier, is a photo whose sizes list is not empty and holds
\* only entries with a non-empty url, or a doc with the fields title, ext,
\* url and date; nothing of another kind and no photo without a url-bearing
\* size is returned.
C25_WellFormedRefs ==
    att.ret # None =>
        \A k \in 1..Len(att.ret[1]) :
            LET x == att.ret[1][k]
            IN  /\ x.type \in {"photo", "doc"}
                /\ x.type = "photo" =>
                      /\ DOMAIN x = {"type", "photo"}
                      /\ x.photo.sizes # <<>>
                      /\ \A j \in 1..Len(x.photo.sizes) :
                            /\ x.photo.sizes[j].url # None
                            /\ x.photo.sizes[j].url # Some("")
                /\ x.type = "doc" =>
                      /\ DOMAIN x = {"type", "doc"}
                      /\ DOMAIN x.doc = {"title", "ext", "url", "date"}

\* photos.getById gave two sizes for attach1, the one with a url is returned
C25_Witness ==
    /\ att.pc = "done" /\ att.got = Some(<<>>)
    /\ Len(att.answers) >= 1 /\ TypeOf(att.answers[1].i) = "photo"
    /\ ~att.answers[1].a.raised /\ att.answers[1].a.body # None
    /\ att.answers[1].a.body[1] # <<>>
    /\ att.answers[1].a.body[1][1].sizes # None
    /\ Len(att.answers[1].a.body[1][1].sizes[1]) = 2
    /\ Len(att.ret[1]) = 1
    /\ att.ret[1][1].photo.sizes = <<[type |-> Some("m"), url |-> Some("u1")]>>

\* C26: however many answers with failed = 1 or a session-invalidating failed
\* one wait() call handles, the number of its nested wait() frames stays the
\* same: repeating the poll adds no frame.
C26_RepeatAddsNoFrame ==
    [][\A t \in SeqTasks :
          (Answered(t) /\ task'[t].pc \in {"get", "handoff"}
              /\ Len(task'[t].hist) > Len(task[t].hist)) =>
              Len(task'[t].stack) = Len(task[t].stack)
      ]_vars

\* C28: every handoff call made inside wait(need_pts=True) on a user
\* session, the first one and each one that follows a session-invalidating
\* answer, carries need_pts = 1.
C28_HandoffRequestsPts ==
    \A t \in SeqTasks :
        (kind = "user" /\ task[t].op = "wait" /\ task[t].pc = "handoff"
            /\ task[t].stack[1]) =>
            task[t].hreq = Some([method |-> "messages.getLongPollServer",
                                 need_pts |-> Some(1)])

\* C29: a handoff call that raises, or whose payload lacks ts, key or server,
\* leaves the change-pointer, the cursor, the key and the endpoint as they
\* were.
C29_FailedHandoffWritesNothing ==
    [][\A t \in SeqTasks :
          (HandedOff(t) /\ task'[t].pc = "done"
              /\ task'[t].outcome \in {"ApiError", "KeyError"}) =>
              <<pts, ts, key, base_url>>' = <<pts, ts, key, base_url>>
      ]_vars

\* the handoff answer a is a complete payload
Complete(a) ==
    ~a.raised /\ a.body[1].ts # None /\ a.body[1].key # None /\ a.body[1].server # None

BothHandOff == \A t \in Tasks : task[t].pc = "handoff"
SameCursorPolled ==
    /\ \A t \in Tasks : task[t].pc = "get"
    /\ task[1].req = task[2].req
StaleRequest(t) ==
    \/ task[t].pc = "get" /\ task[t].req # Some([url |-> base_url, ts |-> ts, key |-> key])
    \/ task[t].pc = "handoff" /\ base_url # None

\* C30 (SpecTwo): nothing in the session keeps a second task out: a wait()
\* call makes its handoff call exactly when it finds the endpoint unset,
\* whether or not the other task has one in flight, a complete handoff
\* payload and the ts of an answer are stored whatever the session holds by
\* then; as long as the second task has made no call none of the following
\* is reached: two handoff calls in flight, two GETs in flight with the same
\* cursor, a GET in flight whose cursor, key or endpoint is no longer the
\* session's, a handoff call in flight while the endpoint is set.
C30_NoProtection ==
    /\ [](task[2].pc = "idle" =>
             /\ ~BothHandOff /\ ~SameCursorPolled
             /\ \A t \in Tasks : ~StaleRequest(t))
    /\ [][\A t \in Tasks :
             /\ (task[t].pc = "idle" /\ task'[t].pc \in {"handoff", "get"}) =>
                   (task'[t].pc = "handoff" <=> base_url = None)
             /\ (Answered(t) /\ IsPlain(task'[t].resp[1])) => ts' = task'[t].resp[1].ts
             /\ (HandedOff(t) /\ Complete(task'[t].hresp[1])) =>
                   /\ ts' = task'[t].hresp[1].body[1].ts
                   /\ key' = task'[t].hresp[1].body[1].key
                   /\ base_url' # None
         ]_vars

\* both tasks made a handoff call on the unset endpoint (two calls, both
\* answered, no session-invalidating answer), both polled with cursor 100,
\* the second task's answer moved the cursor to 105 and the first task's
\* answer, arriving later, put it back to 100
C30_Witness ==
    /\ \A t \in Tasks : task[t].pc = "done" /\ task[t].outcome = "ok"
    /\ cnt.handoffs = 2 /\ cnt.handoffsOk = 2 /\ cnt.invGet = 0 /\ cnt.invPending = 0
    /\ task[1].req = task[2].req
    /\ task[1].req[1].ts = Some(100)
    /\ task[2].ret[1].ts = Some(105)
    /\ task[1].ret[1].ts = Some(100)
    /\ ts = Some(100)
====
